---- MODULE Spec2Model ----
(***************************************************************************)
(* Model of incus-osd/internal/secureboot/pcrs.go.                         *)
(*                                                                         *)
(* Spec models one caller invoking ForceUpdatePCRBindings, run after run,  *)
(* against an environment made of the Secure Boot status query, the LUKS   *)
(* volume enumeration, the external commands (cryptsetup,                  *)
(* systemd-cryptenroll, systemctl), the TPM's PCR7 sysfs file, the UKI on  *)
(* disk and the runtime key file.  Every external call is one action; its  *)
(* outcome is chosen by the environment.  The caller's context can be      *)
(* cancelled between any two calls.                                        *)
(***************************************************************************)
EXTENDS Integers, Sequences, FiniteSets, TLC

\* ------------------------------------------------------------------ bounds

\* Number of LUKS volumes the enumeration can return.
MaxVolumes == 2

\* Number of invocations of ForceUpdatePCRBindings in one behaviour.
MaxRuns == 2

\* Size of the buffer readPCR7 fills from the sysfs file (pcrs.go:108).
PCRHexLen == 64

\* Size of a SHA-256 digest and of a PCR register (pcrs.go:123).
DigestSize == 32

\* Longest content, in bytes, handed to extendPCRValue on its own.
MaxContentLen == 2

\* Longest event log, and the number of calls of computeNewPCR7Value.
MaxEvents == 3
MaxCalls == 2

\* Most certificates in the db variable handed to the matcher on its own.
MaxDbCerts == 2

\* Largest Size and VirtualAddress a Security directory declares.
MaxDirSize == 13
MaxDirAddress == 4

\* Size of the WIN_CERTIFICATE header that precedes the PKCS7 blob
\* (pcrs.go:288).
WinCertHeaderLen == 8

\* Last reading of the clock, and the length of an hour in its ticks.
MaxTime == 3
Hour == 2

\* Releases GitHub publishes over a run.
MaxReleases == 2

\* Attempts of tryGetRelease: for range 5.
MaxAttempts == 5

\* Most servers and most rules in a proxy configuration.
MaxServers == 2
MaxRules == 2

\* The goroutines that call the GitHub provider at the same time.
Goroutines == {"g1", "g2"}

Vols == 1..MaxVolumes

\* ------------------------------------------------------- encoding/hex

LowerHex == <<"0","1","2","3","4","5","6","7","8","9","a","b","c","d","e","f">>

UpperHex == <<"0","1","2","3","4","5","6","7","8","9","A","B","C","D","E","F">>

HexChars == {LowerHex[i] : i \in 1..16} \cup {UpperHex[i] : i \in 1..16}

\* The value of each hex digit, of either case.
HexValue == [c \in HexChars |->
               (CHOOSE i \in 1..16 : LowerHex[i] = c \/ UpperHex[i] = c) - 1]

\* fromHexChar: the value of one hex digit, -1 for any other character.
fromHexChar(c) == IF c \in HexChars THEN HexValue[c] ELSE -1

\* hex.DecodeString: [ok, bytes].  The pairs of digits are decoded in order
\* up to the first pair holding a non-hex character; that, and an odd length,
\* are errors, returned along with the bytes decoded so far.
DecodeString(s) ==
    LET pairs == Len(s) \div 2
        bad == {k \in 1..pairs : fromHexChar(s[2 * k - 1]) = -1 \/ fromHexChar(s[2 * k]) = -1}
        n == IF bad = {} THEN pairs ELSE (CHOOSE k \in bad : \A j \in bad : k <= j) - 1
    IN  [ok |-> bad = {} /\ Len(s) % 2 = 0,
         bytes |-> [k \in 1..n |->
                      16 * fromHexChar(s[2 * k - 1]) + fromHexChar(s[2 * k])]]

\* A plausible slip: the two digits of each byte written low nibble first.
EncodeToString_NibblesSwapped(b) ==
    [i \in 1..(2 * Len(b)) |->
        IF i % 2 = 1 THEN LowerHex[(b[(i + 1) \div 2] % 16) + 1]
                     ELSE LowerHex[(b[i \div 2] \div 16) + 1]]

\* hex.EncodeToString: two lower-case digits per byte, high nibble first.
EncodeToString(b) ==
    [i \in 1..(2 * Len(b)) |->
        IF i % 2 = 1 THEN LowerHex[(b[(i + 1) \div 2] \div 16) + 1]
                     ELSE LowerHex[(b[i \div 2] % 16) + 1]]

\* ------------------------------------------- /sys/class/tpm/tpm0/pcr-sha256/7

\* The kernel prints the register as upper-case hex followed by a newline.
PcrFileUpper == [i \in 1..(PCRHexLen + 1) |->
                    IF i = PCRHexLen + 1 THEN "\n" ELSE UpperHex[((i * 7) % 16) + 1]]

\* The same shape in lower case, another register value.
PcrFileLower == [i \in 1..(PCRHexLen + 1) |->
                    IF i = PCRHexLen + 1 THEN "\n" ELSE LowerHex[((i * 3 + 1) % 16) + 1]]

\* A file that ends before the buffer is full.
PcrFileShort == [i \in 1..(PCRHexLen - 1) |-> UpperHex[((i * 7) % 16) + 1]]

\* A full-length file holding a character that is no hex digit.
PcrFileBad == [i \in 1..PCRHexLen |-> IF i = 10 THEN "Z" ELSE UpperHex[((i * 7) % 16) + 1]]

PcrFiles == <<PcrFileUpper, PcrFileLower, PcrFileShort, PcrFileBad>>

\* A plausible slip: the buffer read is returned without hex decoding.
readPCR7_NotDecoded(fileIdx) ==
    IF fileIdx = 0 THEN [ok |-> FALSE, bytes |-> <<>>]
    ELSE IF Len(PcrFiles[fileIdx]) < PCRHexLen THEN [ok |-> FALSE, bytes |-> <<>>]
    ELSE [ok |-> TRUE, bytes |-> SubSeq(PcrFiles[fileIdx], 1, PCRHexLen)]

\* readPCR7 on a file that could be opened (fileIdx > 0) or not (fileIdx = 0):
\* io.ReadFull of PCRHexLen bytes, then hex.DecodeString.
readPCR7(fileIdx) ==
    IF fileIdx = 0 THEN [ok |-> FALSE, bytes |-> <<>>]
    ELSE IF Len(PcrFiles[fileIdx]) < PCRHexLen THEN [ok |-> FALSE, bytes |-> <<>>]
    ELSE DecodeString(SubSeq(PcrFiles[fileIdx], 1, PCRHexLen))

\* "--tpm2-pcrs=" argument of systemd-cryptenroll without the option name.
PolicyPrefix == <<"7", ":", "s", "h", "a", "2", "5", "6", "=">>

\* Certificates a UKI can be signed with.
Certs == {"certA"}

\* ------------------------------------------------------ crypto/sha256

\* A byte string is a sequence of atoms: <<n>> is the byte n, and
\* <<"sha256", m>> stands for the DigestSize bytes of the SHA-256 digest of
\* the byte string m.  Two digests are equal exactly when their messages
\* are: the hash is collision-free.  The fixed-width fields of a TCG record
\* are atoms too: <<"guid", g>> (16 bytes), <<"u64", n>> (8 bytes) and
\* <<"u16", c>> (one UTF-16 code unit, 2 bytes).
Bytes(ns) == [i \in 1..Len(ns) |-> <<ns[i]>>]

AtomLen(a) ==
    IF Len(a) = 1 THEN 1
    ELSE CASE a[1] = "sha256" -> DigestSize
           [] a[1] = "guid" -> 16
           [] a[1] = "u64" -> 8
           [] a[1] = "u16" -> 2

RECURSIVE ByteLen(_)
ByteLen(b) == IF b = <<>> THEN 0 ELSE AtomLen(Head(b)) + ByteLen(Tail(b))

\* sha256.Sum256.
Sum256(m) == << <<"sha256", m>> >>

\* crypto.SHA256.New(), Write and Sum(nil): the hash of everything written.
HashNew == <<>>

HashWrite(h, b) == h \o b

HashSum(h) == Sum256(h)

\* make([]byte, 32): the value of a PCR after reset.
Zero32 == [i \in 1..DigestSize |-> <<0>>]

\* A plausible slip: the test of computeSHA256 inverted.
extendPCRValue_FlagInverted(pcr, content, computeSHA256) ==
    LET h1 == HashWrite(HashNew, pcr)
        h2 == IF ~computeSHA256 THEN HashWrite(h1, Sum256(content))
                                ELSE HashWrite(h1, content)
    IN  HashSum(h2)

\* A plausible slip: the old register value is not written to the hash.
extendPCRValue_PcrNotWritten(pcr, content, computeSHA256) ==
    LET h1 == HashNew
        h2 == IF computeSHA256 THEN HashWrite(h1, Sum256(content))
                               ELSE HashWrite(h1, content)
    IN  HashSum(h2)

\* extendPCRValue (lines 327-350).  hash.Write never returns an error, so the
\* error result is always nil and only the digest is modelled.
extendPCRValue(pcr, content, computeSHA256) ==
    LET h1 == HashWrite(HashNew, pcr)
        h2 == IF computeSHA256 THEN HashWrite(h1, Sum256(content))
                               ELSE HashWrite(h1, content)
    IN  HashSum(h2)

\* ------------------------------------------------------ byte strings

\* b[:n]: the longest prefix of whole atoms that holds at most n bytes.
RECURSIVE TakeBytes(_, _)
TakeBytes(b, n) ==
    IF b = <<>> \/ AtomLen(Head(b)) > n THEN <<>>
    ELSE <<Head(b)>> \o TakeBytes(Tail(b), n - AtomLen(Head(b)))

\* b[n:], for n on an atom boundary.
DropBytes(b, n) == SubSeq(b, Len(TakeBytes(b, n)) + 1, Len(b))

IsAtom(b, i, tag) == i <= Len(b) /\ Len(b[i]) = 2 /\ b[i][1] = tag

\* ------------------------------------------------------ strings

\* A string is a sequence of one-character strings.
RECURSIVE Split(_, _)
\* strings.Split(s, sep) for a one-character separator.
Split(s, sep) ==
    IF \A i \in 1..Len(s) : s[i] # sep THEN <<s>>
    ELSE LET k == CHOOSE i \in 1..Len(s) : s[i] = sep /\ \A j \in 1..(i - 1) : s[j] # sep
         IN  <<SubSeq(s, 1, k - 1)>> \o Split(SubSeq(s, k + 1, Len(s)), sep)

RECURSIVE Join(_, _)
\* strings.Join(elems, sep).
Join(elems, sep) ==
    IF elems = <<>> THEN <<>>
    ELSE IF Len(elems) = 1 THEN elems[1]
    ELSE elems[1] \o <<sep>> \o Join(Tail(elems), sep)

\* strings.HasPrefix(s, prefix).
HasPrefix(s, prefix) == Len(s) >= Len(prefix) /\ SubSeq(s, 1, Len(prefix)) = prefix

\* ------------------------------------------------------ x509 certificates

\* The certificates of the model: the signing certificate of the running
\* release, its successor after a key rotation, a third-party one, a
\* successor with a longer encoding, and one with a two-word Subject.
CertOld == 1
CertNew == 2
CertThirdParty == 3
CertLong == 4
CertShortSubject == 5
X509Certs == {CertOld, CertNew, CertThirdParty, CertLong, CertShortSubject}

\* cert.Subject.String().
CertSubject(c) ==
    CASE c = CertOld -> <<"I", " ", "O", " ", "S", " ", "K", " ", "1">>
      [] c = CertNew -> <<"I", " ", "O", " ", "S", " ", "K", " ", "2">>
      [] c = CertThirdParty -> <<"M", " ", "S", " ", "U", " ", "C", " ", "1">>
      [] c = CertLong -> <<"I", " ", "O", " ", "S", " ", "K", " ", "3">>
      [] c = CertShortSubject -> <<"I", " ", "O">>

\* cert.Raw: the DER encoding, a SEQUENCE tag followed by the content.
CertRawLen(c) == IF c = CertLong THEN 19 ELSE 18

CertRaw(c) ==
    [i \in 1..CertRawLen(c) |-> IF i = 1 THEN <<48>> ELSE IF i = 2 THEN <<c>> ELSE <<0>>]

\* x509.ParseCertificate: [ok, cert].
ParseCertificate(der) ==
    IF \E c \in X509Certs : CertRaw(c) = der
    THEN [ok |-> TRUE, cert |-> CHOOSE c \in X509Certs : CertRaw(c) = der]
    ELSE [ok |-> FALSE, cert |-> 0]

\* cert.Equal: equality of the raw encodings.
CertEqual(c, d) == CertRaw(c) = CertRaw(d)

\* ------------------------------------------------------ TCG records

\* tcg.UEFIVariableData.Encode: header, name and data as they stand.
Encode(v) ==
    << <<"guid", v.VariableName>>, <<"u64", v.UnicodeNameLength>>,
       <<"u64", v.VariableDataLength>> >>
    \o [i \in 1..Len(v.UnicodeName) |-> <<"u16", v.UnicodeName[i]>>]
    \o v.VariableData

NoVariableData ==
    [VariableName |-> "", UnicodeNameLength |-> 0, VariableDataLength |-> 0,
     UnicodeName |-> <<>>, VariableData |-> <<>>]

\* tcg.ParseUEFIVariableData: [ok, v].  The header is read first, then as many
\* name units and data bytes as it declares; too few of either is an error.
ParseUEFIVariableData(raw) ==
    IF ~(IsAtom(raw, 1, "guid") /\ IsAtom(raw, 2, "u64") /\ IsAtom(raw, 3, "u64"))
    THEN [ok |-> FALSE, v |-> NoVariableData]
    ELSE LET nameLen == raw[2][2]
             dataLen == raw[3][2]
             rest    == SubSeq(raw, 4 + nameLen, Len(raw))
             data    == TakeBytes(rest, dataLen)
         IN  IF /\ \A i \in 4..(3 + nameLen) : IsAtom(raw, i, "u16")
                /\ ByteLen(data) = dataLen
             THEN [ok |-> TRUE,
                   v  |-> [VariableName |-> raw[1][2],
                           UnicodeNameLength |-> nameLen,
                           VariableDataLength |-> dataLen,
                           UnicodeName |-> [i \in 1..nameLen |-> raw[3 + i][2]],
                           VariableData |-> data]]
             ELSE [ok |-> FALSE, v |-> NoVariableData]

\* v.VarName().
VarName(v) == v.UnicodeName

\* Size of the owner GUID that precedes the certificate of a signature.
SignatureOwnerLen == 16

\* Two DER certificates one after the other, as a pair of certificates.
ParseCertificatePair(der) ==
    IF \E c, d \in X509Certs : CertRaw(c) \o CertRaw(d) = der
    THEN [ok |-> TRUE,
          certs |-> CHOOSE cd \in X509Certs \X X509Certs : CertRaw(cd[1]) \o CertRaw(cd[2]) = der]
    ELSE [ok |-> FALSE, certs |-> <<>>]

\* tcg.ParseUEFIVariableAuthority: [ok, certs].  The data is a signature owner
\* followed by one DER certificate; data that is a bare certificate is
\* accepted as well, and the SbatLevel variable carries no certificate.  The
\* result is a list: signature data made of two certificates is decoded to
\* both, so that the count test of line 204 meets more than one.
ParseUEFIVariableAuthority(v) ==
    LET b == v.VariableData
        withOwner == ParseCertificate(DropBytes(b, SignatureOwnerLen))
        pair == ParseCertificatePair(DropBytes(b, SignatureOwnerLen))
        bare == ParseCertificate(b)
    IN  IF VarName(v) = <<"S", "b", "a", "t", "L", "e", "v", "e", "l">>
        THEN [ok |-> TRUE, certs |-> <<>>]
        ELSE IF ByteLen(b) < SignatureOwnerLen THEN [ok |-> FALSE, certs |-> <<>>]
        ELSE IF withOwner.ok THEN [ok |-> TRUE, certs |-> <<withOwner.cert>>]
        ELSE IF pair.ok THEN [ok |-> TRUE, certs |-> pair.certs]
        ELSE IF bare.ok THEN [ok |-> TRUE, certs |-> <<bare.cert>>]
        ELSE [ok |-> FALSE, certs |-> <<>>]

\* ------------------------------------------------------ the platform

\* What the helpers read: whether efivarfs can be read and the certificates
\* of the db variable, whether the boot stub can be located and its signature
\* parsed, and the certificate that signed it.  env is a record
\* [efiOk, dbCerts, archOk, peOk, stubCert].
DbName == <<"d", "b">>

RECURSIVE DbValue(_)
\* The bytes of the db variable: each certificate behind its owner GUID.
DbValue(certs) ==
    IF certs = <<>> THEN <<>>
    ELSE << <<"guid", "owner">> >> \o CertRaw(Head(certs)) \o DbValue(Tail(certs))

\* readEFIVariable: [ok, buf].
readEFIVariable(env, name) ==
    IF env.efiOk /\ name = DbName
    THEN [ok |-> TRUE, buf |-> DbValue(env.dbCerts)]
    ELSE [ok |-> FALSE, buf |-> <<>>]

\* GetCertificatesFromVar("db"): [ok, certs].
GetCertificatesFromVar(env) ==
    IF env.efiOk THEN [ok |-> TRUE, certs |-> env.dbCerts]
    ELSE [ok |-> FALSE, certs |-> <<>>]

\* slices.IndexFunc(certs, func(c) bool { return c.Equal(existingCert) }),
\* with 0 for the -1 of the code.
IndexOfCert(certs, existingCert) ==
    IF \E i \in 1..Len(certs) : CertEqual(certs[i], existingCert)
    THEN CHOOSE i \in 1..Len(certs) :
             /\ CertEqual(certs[i], existingCert)
             /\ \A j \in 1..(i - 1) : ~CertEqual(certs[j], existingCert)
    ELSE 0

\* Results of the two helpers: the error ("" for nil), the bytes (<<>> for
\* nil) and the reads made, in order.
Failed(err, reads) == [err |-> err, buf |-> <<>>, reads |-> reads]

Returned(buf, reads) == [err |-> "", buf |-> buf, reads |-> reads]

\* A plausible slip: the record is re-encoded with the data of the event log.
computeExpectedVariableDriverConfig_LoggedValue(rawBuf, env) ==
    LET p == ParseUEFIVariableData(rawBuf)
        r == readEFIVariable(env, VarName(p.v))
    IN  IF ~p.ok THEN Failed("ParseUEFIVariableData", <<>>)
        ELSE IF ~r.ok THEN Failed("readEFIVariable", <<"readEFIVariable">>)
        ELSE Returned(Encode(p.v), <<"readEFIVariable">>)

\* A plausible slip: the data replaced, the length of the header left as logged.
computeExpectedVariableDriverConfig_LengthKept(rawBuf, env) ==
    LET p == ParseUEFIVariableData(rawBuf)
        r == readEFIVariable(env, VarName(p.v))
    IN  IF ~p.ok THEN Failed("ParseUEFIVariableData", <<>>)
        ELSE IF ~r.ok THEN Failed("readEFIVariable", <<"readEFIVariable">>)
        ELSE Returned(Encode([p.v EXCEPT !.VariableData = r.buf]), <<"readEFIVariable">>)

\* computeExpectedVariableDriverConfig (lines 171-189).
computeExpectedVariableDriverConfig(rawBuf, env) ==
    LET p == ParseUEFIVariableData(rawBuf)
        r == readEFIVariable(env, VarName(p.v))
    IN  IF ~p.ok THEN Failed("ParseUEFIVariableData", <<>>)
        ELSE IF ~r.ok THEN Failed("readEFIVariable", <<"readEFIVariable">>)
        ELSE Returned(Encode([p.v EXCEPT !.VariableDataLength = ByteLen(r.buf),
                                         !.VariableData = r.buf]),
                      <<"readEFIVariable">>)

\* A plausible slip: a record with several certificates is taken by its first.
WrongCertCount_FirstTaken(certs) == Len(certs) < 1

\* len(va.Certs) != 1 (line 204).
WrongCertCount(certs) == Len(certs) # 1

\* A plausible slip: the record is decoded and encoded again instead of
\* being handed back.
Untouched_Reencoded(rawBuf, v) == Encode(v)

\* return rawBuf, nil (lines 221 and 231).
Untouched(rawBuf, v) == rawBuf

\* A plausible slip: the negation left out.
IsThirdParty_Negated(subject, existingCertPrefix) == HasPrefix(subject, existingCertPrefix)

\* !strings.HasPrefix(va.Certs[0].Subject.String(), existingCertPrefix)
\* (line 230).
IsThirdParty(subject, existingCertPrefix) == ~HasPrefix(subject, existingCertPrefix)

\* A plausible slip: with no match in db its last certificate is used.
IndexInDb_LastWhenMissing(certs, existingCert) ==
    IF IndexOfCert(certs, existingCert) = 0 THEN Len(certs)
    ELSE IndexOfCert(certs, existingCert)

\* index := slices.IndexFunc(...) (lines 242-244).
IndexInDb(certs, existingCert) == IndexOfCert(certs, existingCert)

\* A plausible slip: the certificate of the event log is left in place.
Substitute_OldCertKept(variableData, raw) == variableData

\* newBuf: the first 16 bytes of the data, then the raw certificate
\* (lines 250-260).
Substitute(variableData, raw) == TakeBytes(variableData, SignatureOwnerLen) \o raw

\* A plausible slip: the size test left out.
SizeDiffers_NeverChecked(newBuf, variableData) == FALSE

\* newBuf.Len() != len(v.VariableData) (line 262).
SizeDiffers(newBuf, variableData) == ByteLen(newBuf) # ByteLen(variableData)

\* computeExpectedVariableAuthority (lines 193-271).  Slicing the four-word
\* prefix of a Subject of fewer than four words panics.
computeExpectedVariableAuthority(rawBuf, env) ==
    LET p  == ParseUEFIVariableData(rawBuf)
        va == ParseUEFIVariableAuthority(p.v)
        existingCert == env.stubCert
        words == Split(CertSubject(existingCert), " ")
        existingCertPrefix == Join(SubSeq(words, 1, 4), " ")
        db == GetCertificatesFromVar(env)
        index == IndexInDb(db.certs, existingCert)
        newBuf == Substitute(p.v.VariableData, CertRaw(db.certs[index]))
        r1 == <<"getArchEFIFiles">>
        r2 == <<"getArchEFIFiles", "extractCertificateFromPE">>
        r3 == <<"getArchEFIFiles", "extractCertificateFromPE", "GetCertificatesFromVar">>
    IN  IF ~p.ok THEN Failed("ParseUEFIVariableData", <<>>)
        ELSE IF ~va.ok THEN Failed("ParseUEFIVariableAuthority", <<>>)
        ELSE IF WrongCertCount(va.certs) THEN Failed("expected exactly one certificate", <<>>)
        ELSE IF ~env.archOk THEN Failed("getArchEFIFiles", r1)
        ELSE IF ~env.peOk THEN Failed("extractCertificateFromPE", r2)
        ELSE IF CertEqual(va.certs[1], existingCert) THEN Returned(Untouched(rawBuf, p.v), r2)
        ELSE IF Len(words) < 4 THEN Failed("panic: slice bounds out of range", r2)
        ELSE IF IsThirdParty(CertSubject(va.certs[1]), existingCertPrefix)
             THEN Returned(Untouched(rawBuf, p.v), r2)
        ELSE IF ~db.ok THEN Failed("GetCertificatesFromVar", r3)
        ELSE IF index = 0 THEN Failed("failed to find matching certificate", r3)
        ELSE IF SizeDiffers(newBuf, p.v.VariableData)
             THEN Failed("resulting buffer size != expected size", r3)
        ELSE Returned(Encode([p.v EXCEPT !.VariableData = newBuf]), r3)

\* An event of the log is a record [Index, Type, Data, Digest].
ReplayedDigest(e) == e.Digest

\* A plausible slip: the test of the PCR index left out.
IsPCR7_AnyIndex(e) == TRUE

\* e.Index == 7 (line 126).
IsPCR7(e) == e.Index = 7

\* A plausible slip: the authority record extended without being hashed.
EventStep_AuthorityNotHashed(acc, e, env) ==
    IF ~IsPCR7(e) THEN Returned(acc, <<>>)
    ELSE IF e.Type = "EFIVariableDriverConfig"
    THEN LET r == computeExpectedVariableDriverConfig(e.Data, env)
         IN  IF r.err # "" THEN Failed(r.err, r.reads)
             ELSE Returned(extendPCRValue(acc, r.buf, TRUE), r.reads)
    ELSE IF e.Type = "EFIVariableAuthority"
    THEN LET r == computeExpectedVariableAuthority(e.Data, env)
         IN  IF r.err # "" THEN Failed(r.err, r.reads)
             ELSE Returned(extendPCRValue(acc, r.buf, FALSE), r.reads)
    ELSE Returned(extendPCRValue(acc, ReplayedDigest(e), FALSE), <<>>)

\* A plausible slip: the replayed digest hashed once more.
EventStep_DefaultHashed(acc, e, env) ==
    IF ~IsPCR7(e) THEN Returned(acc, <<>>)
    ELSE IF e.Type = "EFIVariableDriverConfig"
    THEN LET r == computeExpectedVariableDriverConfig(e.Data, env)
         IN  IF r.err # "" THEN Failed(r.err, r.reads)
             ELSE Returned(extendPCRValue(acc, r.buf, TRUE), r.reads)
    ELSE IF e.Type = "EFIVariableAuthority"
    THEN LET r == computeExpectedVariableAuthority(e.Data, env)
         IN  IF r.err # "" THEN Failed(r.err, r.reads)
             ELSE Returned(extendPCRValue(acc, r.buf, TRUE), r.reads)
    ELSE Returned(extendPCRValue(acc, ReplayedDigest(e), TRUE), <<>>)

\* A plausible slip: an event that cannot be recomputed is passed over.
EventStep_ErrorSwallowed(acc, e, env) ==
    IF ~IsPCR7(e) THEN Returned(acc, <<>>)
    ELSE IF e.Type = "EFIVariableDriverConfig"
    THEN LET r == computeExpectedVariableDriverConfig(e.Data, env)
         IN  IF r.err # "" THEN Returned(acc, r.reads)
             ELSE Returned(extendPCRValue(acc, r.buf, TRUE), r.reads)
    ELSE IF e.Type = "EFIVariableAuthority"
    THEN LET r == computeExpectedVariableAuthority(e.Data, env)
         IN  IF r.err # "" THEN Returned(acc, r.reads)
             ELSE Returned(extendPCRValue(acc, r.buf, TRUE), r.reads)
    ELSE Returned(extendPCRValue(acc, ReplayedDigest(e), FALSE), <<>>)

\* One iteration of the loop of computeNewPCR7Value (lines 125-164): the
\* error, the new actualPCR7Buf and the reads made.
EventStep(acc, e, env) ==
    IF ~IsPCR7(e) THEN Returned(acc, <<>>)
    ELSE IF e.Type = "EFIVariableDriverConfig"
    THEN LET r == computeExpectedVariableDriverConfig(e.Data, env)
         IN  IF r.err # "" THEN Failed(r.err, r.reads)
             ELSE Returned(extendPCRValue(acc, r.buf, TRUE), r.reads)
    ELSE IF e.Type = "EFIVariableAuthority"
    THEN LET r == computeExpectedVariableAuthority(e.Data, env)
         IN  IF r.err # "" THEN Failed(r.err, r.reads)
             ELSE Returned(extendPCRValue(acc, r.buf, TRUE), r.reads)
    ELSE Returned(extendPCRValue(acc, ReplayedDigest(e), FALSE), <<>>)

RECURSIVE FoldEvents(_, _, _)
\* The loop from a given accumulator: [err, buf] as returned at line 132,
\* 147 or 166.
FoldEvents(acc, events, env) ==
    IF events = <<>> THEN [err |-> "", buf |-> acc]
    ELSE LET r == EventStep(acc, Head(events), env)
         IN  IF r.err # "" THEN [err |-> r.err, buf |-> <<>>]
             ELSE FoldEvents(r.buf, Tail(events), env)

\* computeNewPCR7Value (lines 122-167) as a function of the log and the
\* platform.
computeNewPCR7Value(eventLog, env) == FoldEvents(Zero32, eventLog, env)

\* ------------------------------------------------------------------- state

VARIABLES
    pc,           \* position of the running invocation
    runs,         \* invocations started so far
    cancelled,    \* ctx.Done() of the running invocation
    cancelAt,     \* Len(log) when the context was cancelled, -1 before
    luksVolumes,  \* the enumerated map, as the set of its entries
    probeLeft,    \* entries the first range loop has not visited
    atLeastOneVolumeNeedsFixing,
    pcr7,         \* bytes returned by readPCR7
    ukiCert,      \* certificate returned by getPublicKeyFromUKI
    pcr7String,   \* hex.EncodeToString(pcr7)
    enrollLeft,   \* entries the second range loop has not visited
    result,       \* "none" while running, "nil" or the error returned
    log,          \* the external calls of the running invocation, in order
    keyFile,      \* content of /run/systemd/tpm2-pcr-public-key.pem
    slot,         \* per volume, the policy its TPM2 keyslot is bound to
    keyFileAtStart,
    slotAtStart

\* A caller of extendPCRValue: its arguments and what it got back.
VARIABLES
    xPcr,         \* argument pcr
    xContent,     \* argument content
    xFlag,        \* argument computeSHA256
    xCalls,       \* calls made so far
    xOut,         \* result of the first call
    xOut2         \* result of the second call, made on the first one's result

xvars == <<xPcr, xContent, xFlag, xCalls, xOut, xOut2>>

\* Calls of computeNewPCR7Value on one event log and one platform.
VARIABLES
    pLog,         \* argument eventLog
    pEnv,         \* the platform
    pPc,          \* "idle", "loop" (in the range loop) or "done" (returned)
    pI,           \* iteration of the range loop
    pAcc,         \* actualPCR7Buf
    pPrevAcc,     \* actualPCR7Buf before the last iteration
    pSteps,       \* indexes of the events the current call has handled
    pReads,       \* reads the current call has made, in order
    pResults      \* what each finished call returned: [err, buf]

pvars == <<pLog, pEnv, pPc, pI, pAcc, pPrevAcc, pSteps, pReads, pResults>>

rvars == <<pc, runs, cancelled, cancelAt, luksVolumes, probeLeft,
          atLeastOneVolumeNeedsFixing, pcr7, ukiCert, pcr7String, enrollLeft, result, log,
          keyFile, slot, keyFileAtStart, slotAtStart>>

\* A caller of computeExpectedVariableAuthority.
VARIABLES
    mRaw,         \* argument rawBuf
    mEnv,         \* the platform
    mPc,          \* "idle" or "done"
    mOut          \* what the call returned: [err, buf, reads]

mvars == <<mRaw, mEnv, mPc, mOut>>

\* A caller of extractCertificateFromPE.
VARIABLES
    fFile,        \* the file named by the argument
    fPc,          \* "idle" or "done"
    fOut          \* what the call did: [err, cert, made, read, parsed]

fvars == <<fFile, fPc, fOut>>

\* The GitHub provider, the goroutines that call it, GitHub and the clock.
VARIABLES
    releaseLastCheck, \* p.releaseLastCheck: 0 for the zero time, else a clock reading
    releaseVersion,   \* p.releaseVersion: 0 for "", else the release of that name
    releaseAssets,    \* p.releaseAssets: 0 for nil, else the release the list belongs to
    releaseMu,        \* p.releaseMu: "free", else the goroutine that holds it
    gNow,             \* time.Now()
    gLatest,          \* the latest release GitHub publishes
    gPc,              \* where each goroutine is
    gOp,              \* the method each goroutine is in
    gErr,             \* the error each goroutine's call returns, NoError for nil
    gObj,             \* the object each goroutine's call builds: [assets, version]
    gTries,           \* what each attempt of the running tryGetRelease got
    gLocal,           \* release, err and assets of the running checkRelease
    gFresh            \* time of the last recorded check no ClearCache followed, else 0

gvars == <<releaseLastCheck, releaseVersion, releaseAssets, releaseMu, gNow, gLatest, gPc,
           gOp, gErr, gObj, gTries, gLocal, gFresh>>

\* A caller of GenerateKPXConfig.
VARIABLES
    kConfig,      \* argument proxyConfig: [IsNil, Servers, Rules]
    kPc,          \* "idle" or "done"
    kOut          \* what the call returned: [err, yaml]

kvars == <<kConfig, kPc, kOut>>

vars == <<rvars, xvars, pvars, mvars, fvars, gvars, kvars>>

locals == <<luksVolumes, probeLeft, atLeastOneVolumeNeedsFixing, pcr7, ukiCert, pcr7String,
            enrollLeft>>

world == <<keyFile, slot>>

atStart == <<keyFileAtStart, slotAtStart>>

Call(op, vol, val, ok, ctxErr) ==
    [op |-> op, vol |-> vol, val |-> val, ok |-> ok, ctxErr |-> ctxErr]

\* No caller of extendPCRValue.
ExtendIdle ==
    /\ xPcr = <<>>
    /\ xContent = <<>>
    /\ xFlag = FALSE
    /\ xCalls = 0
    /\ xOut = <<>>
    /\ xOut2 = <<>>

\* No invocation of ForceUpdatePCRBindings yet.
RecoveryIdle ==
    /\ pc = "idle"
    /\ runs = 0
    /\ cancelled = FALSE
    /\ cancelAt = -1
    /\ luksVolumes = {}
    /\ probeLeft = {}
    /\ atLeastOneVolumeNeedsFixing = FALSE
    /\ pcr7 = <<>>
    /\ ukiCert = "none"
    /\ pcr7String = <<>>
    /\ enrollLeft = {}
    /\ result = "none"
    /\ log = <<>>
    /\ keyFile = "absent"
    /\ slot = [v \in Vols |-> <<>>]
    /\ keyFileAtStart = "absent"
    /\ slotAtStart = [v \in Vols |-> <<>>]

\* No caller of computeNewPCR7Value.
PredictIdle ==
    /\ pLog = <<>>
    /\ pEnv = [efiOk |-> TRUE, dbCerts |-> <<>>, archOk |-> TRUE, peOk |-> TRUE,
               stubCert |-> CertOld]
    /\ pPc = "idle"
    /\ pI = 0
    /\ pAcc = <<>>
    /\ pPrevAcc = <<>>
    /\ pSteps = <<>>
    /\ pReads = <<>>
    /\ pResults = <<>>

\* No caller of computeExpectedVariableAuthority.
MatcherIdle ==
    /\ mRaw = <<>>
    /\ mEnv = [efiOk |-> TRUE, dbCerts |-> <<>>, archOk |-> TRUE, peOk |-> TRUE,
               stubCert |-> CertOld]
    /\ mPc = "idle"
    /\ mOut = [err |-> "", buf |-> <<>>, reads |-> <<>>]

\* No caller of extractCertificateFromPE.
ExtractIdle ==
    /\ fFile = [opens |-> FALSE, is64 |-> FALSE, Size |-> 0, VirtualAddress |-> 0, certs |-> 0]
    /\ fPc = "idle"
    /\ fOut = [err |-> "", cert |-> 0, made |-> <<>>, read |-> <<>>, parsed |-> <<>>]

\* Results of the GitHub provider: no error, and no object.
NoError == <<"nil", 0>>

NoObject == [assets |-> 0, version |-> 0]

NoLocal == [release |-> 0, err |-> NoError, assets |-> 0]

\* The provider after load (lines 125-134): nothing cached, nobody calling.
GithubIdle ==
    /\ releaseLastCheck = 0
    /\ releaseVersion = 0
    /\ releaseAssets = 0
    /\ releaseMu = "free"
    /\ gNow = 1
    /\ gLatest = 1
    /\ gPc = [g \in Goroutines |-> "idle"]
    /\ gOp = [g \in Goroutines |-> "none"]
    /\ gErr = [g \in Goroutines |-> NoError]
    /\ gObj = [g \in Goroutines |-> NoObject]
    /\ gTries = <<>>
    /\ gLocal = NoLocal
    /\ gFresh = 0

\* No caller of GenerateKPXConfig.
ProxyIdle ==
    /\ kConfig = [IsNil |-> TRUE, Servers |-> <<>>, Rules |-> <<>>]
    /\ kPc = "idle"
    /\ kOut = [err |-> "", yaml |-> <<>>]

Init ==
    /\ RecoveryIdle
    /\ ExtendIdle
    /\ PredictIdle
    /\ MatcherIdle
    /\ ExtractIdle
    /\ GithubIdle
    /\ ProxyIdle

\* -------------------------------------------------- ForceUpdatePCRBindings

Go(nextPc) == [pc |-> nextPc, result |-> "none"]

Return(err) == [pc |-> "done", result |-> err]

\* A plausible slip: only the error of the status query is checked.
CheckEnabled_DisabledIgnored(st) ==
    IF st = "error" THEN Return("err:Enabled") ELSE Go("Enumerate")

\* Lines 32-37: an error of the status query, or Secure Boot disabled, returns.
CheckEnabled(st) ==
    IF st = "error" THEN Return("err:Enabled")
    ELSE IF st # "enabled" THEN Return("SecureBootDisabled")
    ELSE Go("Enumerate")

\* exec.CommandContext under subprocess.RunCommandContext / RunCommandSplit:
\* a command whose context is done is not started (or is killed) and the call
\* returns an error; otherwise the tool's own outcome decides.
RunCommand(ctxDone, toolOk) ==
    IF ctxDone THEN [ok |-> FALSE, ctxErr |-> TRUE]
    ELSE [ok |-> toolOk, ctxErr |-> FALSE]

\* A plausible slip: the refusal is dropped.
NeedsFixingGate_NoRefusal(needsFixing) == Go("ReadPCR7")

\* Lines 56-58: refuse when no unlock test failed.
NeedsFixingGate(needsFixing) ==
    IF ~needsFixing THEN Return("NoRecoveryNeeded") ELSE Go("ReadPCR7")

\* A plausible slip: the error of readPCR7 is not checked.
AfterReadPCR7_ErrorIgnored(ok) == Go("GetCert")

\* Lines 65-67.
AfterReadPCR7(ok) == IF ~ok THEN Return("err:readPCR7") ELSE Go("GetCert")

\* A plausible slip: the extraction is tried again after a failure.
AfterGetCert_TriedAgain(ok) == IF ~ok THEN Go("GetCert") ELSE Go("WriteKey")

\* Lines 71-73.
AfterGetCert(ok) == IF ~ok THEN Return("err:getPublicKeyFromUKI") ELSE Go("WriteKey")

\* A plausible slip: the error of os.WriteFile is not checked.
AfterWriteFile_ErrorIgnored(ok) == Go("EnrollLoop")

\* Lines 77-79.
AfterWriteFile(ok) == IF ~ok THEN Return("err:WriteFile") ELSE Go("EnrollLoop")

\* A plausible slip: a failed enrollment is skipped and the loop goes on.
AfterEnroll_ContinueOnError(ok, left) ==
    IF left = {} THEN Go("Reboot") ELSE Go("EnrollLoop")

\* Lines 84-89: the loop returns at the first error, goes on while entries
\* are left, and falls through to the reboot after the last one.
AfterEnroll(ok, left) ==
    IF ~ok THEN Return("err:cryptenroll")
    ELSE IF left = {} THEN Go("Reboot") ELSE Go("EnrollLoop")

\* A plausible slip: success is returned whatever the reboot request returned.
AfterReboot_ErrorIgnored(ok) == Return("nil")

\* Lines 93-97.
AfterReboot(ok) == IF ~ok THEN Return("err:reboot") ELSE Return("nil")

\* Line 85: the policy argument built from pcr7String.
PolicyArg(hexString) == PolicyPrefix \o hexString

\* A plausible slip: the flag lives outside the function and keeps the value
\* an earlier invocation left in it.
DeclareNeedsFixing_KeptAcrossCalls(previous) == previous

\* atLeastOneVolumeNeedsFixing := false (line 45): a fresh local, whatever an
\* earlier invocation computed.
DeclareNeedsFixing(previous) == FALSE

\* The caller invokes the operation with a live context.  After a reboot
\* request that succeeded the system goes down and nothing is invoked again.
Invoke ==
    /\ pc \in {"idle", "done"}
    /\ result # "nil"
    /\ runs < MaxRuns
    /\ runs' = runs + 1
    /\ pc' = "CheckSecureBoot"
    /\ cancelled' = FALSE
    /\ cancelAt' = -1
    /\ luksVolumes' = {}
    /\ probeLeft' = {}
    /\ atLeastOneVolumeNeedsFixing' = DeclareNeedsFixing(atLeastOneVolumeNeedsFixing)
    /\ pcr7' = <<>>
    /\ ukiCert' = "none"
    /\ pcr7String' = <<>>
    /\ enrollLeft' = {}
    /\ result' = "none"
    /\ log' = <<>>
    /\ keyFileAtStart' = keyFile
    /\ slotAtStart' = slot
    /\ UNCHANGED world

\* The caller cancels the context while the operation runs.
Cancel ==
    /\ pc \notin {"idle", "done"}
    /\ ~cancelled
    /\ cancelled' = TRUE
    /\ cancelAt' = Len(log)
    /\ UNCHANGED <<pc, runs, locals, result, log, world, atStart>>

\* Lines 32-37.
CheckSecureBoot ==
    /\ pc = "CheckSecureBoot"
    /\ \E st \in {"enabled", "disabled", "error"} :
         /\ log' = Append(log, Call("Enabled", 0, st, st = "enabled", FALSE))
         /\ pc' = CheckEnabled(st).pc
         /\ result' = CheckEnabled(st).result
    /\ UNCHANGED <<runs, cancelled, cancelAt, locals, world, atStart>>

\* Lines 40-45: the enumeration fails, or returns a map of volumes.
Enumerate ==
    /\ pc = "Enumerate"
    /\ \/ /\ log' = Append(log, Call("GetLUKSVolumePartitions", 0, {}, FALSE, FALSE))
          /\ pc' = "done"
          /\ result' = "err:GetLUKSVolumePartitions"
          /\ UNCHANGED <<luksVolumes, probeLeft, atLeastOneVolumeNeedsFixing>>
       \/ \E m \in SUBSET Vols :
            /\ log' = Append(log, Call("GetLUKSVolumePartitions", 0, m, TRUE, FALSE))
            /\ luksVolumes' = m
            /\ probeLeft' = m
            /\ pc' = IF m = {} THEN "CheckNeedsFixing" ELSE "ProbeLoop"
            /\ result' = "none"
            /\ atLeastOneVolumeNeedsFixing' = DeclareNeedsFixing(atLeastOneVolumeNeedsFixing)
    /\ UNCHANGED <<runs, cancelled, cancelAt, pcr7, ukiCert, pcr7String, enrollLeft, world,
                   atStart>>

\* Lines 47-54: one iteration of the range loop over the map (Go visits the
\* entries in an unspecified order); the first failing test ends the loop.
ProbeVolume ==
    /\ pc = "ProbeLoop"
    /\ \E v \in probeLeft, toolOk \in BOOLEAN :
         LET r == RunCommand(cancelled, toolOk) IN
         /\ log' = Append(log, Call("luksOpen", v, "", r.ok, r.ctxErr))
         /\ probeLeft' = probeLeft \ {v}
         /\ atLeastOneVolumeNeedsFixing' = (IF ~r.ok THEN TRUE ELSE atLeastOneVolumeNeedsFixing)
         /\ pc' = IF ~r.ok \/ probeLeft' = {} THEN "CheckNeedsFixing" ELSE "ProbeLoop"
    /\ UNCHANGED <<runs, cancelled, cancelAt, luksVolumes, pcr7, ukiCert, pcr7String,
                   enrollLeft, result, world, atStart>>

\* Lines 56-58.
CheckNeedsFixing ==
    /\ pc = "CheckNeedsFixing"
    /\ pc' = NeedsFixingGate(atLeastOneVolumeNeedsFixing).pc
    /\ result' = NeedsFixingGate(atLeastOneVolumeNeedsFixing).result
    /\ UNCHANGED <<runs, cancelled, cancelAt, locals, log, world, atStart>>

\* Lines 64-67.
ReadPCR7 ==
    /\ pc = "ReadPCR7"
    /\ \E f \in 0..Len(PcrFiles) :
         LET r == readPCR7(f) IN
         /\ log' = Append(log, Call("readPCR7", 0, r.bytes, r.ok, FALSE))
         /\ pcr7' = r.bytes
         /\ pc' = AfterReadPCR7(r.ok).pc
         /\ result' = AfterReadPCR7(r.ok).result
    /\ UNCHANGED <<runs, cancelled, cancelAt, luksVolumes, probeLeft,
                   atLeastOneVolumeNeedsFixing, ukiCert, pcr7String, enrollLeft, world,
                   atStart>>

\* Lines 70-73.
GetCert ==
    /\ pc = "GetCert"
    /\ \E c \in Certs \cup {"none"} :
         /\ log' = Append(log, Call("getPublicKeyFromUKI", 0, c, c # "none", FALSE))
         /\ ukiCert' = c
         /\ pc' = AfterGetCert(c # "none").pc
         /\ result' = AfterGetCert(c # "none").result
    /\ UNCHANGED <<runs, cancelled, cancelAt, luksVolumes, probeLeft,
                   atLeastOneVolumeNeedsFixing, pcr7, pcr7String, enrollLeft, world,
                   atStart>>

\* Lines 76-82: os.WriteFile either writes the certificate or fails, leaving
\* the file as it was (open failed) or truncated (write failed).
WriteKey ==
    /\ pc = "WriteKey"
    /\ \E out \in {"ok", "openfail", "writefail"} :
         /\ log' = Append(log, Call("WriteFile", 0, ukiCert, out = "ok", FALSE))
         /\ keyFile' = CASE out = "ok" -> ukiCert
                         [] out = "openfail" -> keyFile
                         [] OTHER -> "truncated"
         /\ pc' = AfterWriteFile(out = "ok").pc
         /\ result' = AfterWriteFile(out = "ok").result
         /\ pcr7String' = (IF AfterWriteFile(out = "ok").pc = "EnrollLoop"
                           THEN EncodeToString(pcr7) ELSE pcr7String)
         /\ enrollLeft' = (IF AfterWriteFile(out = "ok").pc = "EnrollLoop"
                           THEN luksVolumes ELSE enrollLeft)
    /\ UNCHANGED <<runs, cancelled, cancelAt, luksVolumes, probeLeft,
                   atLeastOneVolumeNeedsFixing, pcr7, ukiCert, slot, atStart>>

\* Lines 84-89: one iteration of the second range loop.
EnrollVolume ==
    /\ pc = "EnrollLoop"
    /\ \E v \in enrollLeft, toolOk \in BOOLEAN :
         LET r == RunCommand(cancelled, toolOk) IN
         /\ log' = Append(log, Call("cryptenroll", v, PolicyArg(pcr7String), r.ok, r.ctxErr))
         /\ slot' = IF r.ok THEN [slot EXCEPT ![v] = PolicyArg(pcr7String)] ELSE slot
         /\ enrollLeft' = enrollLeft \ {v}
         /\ pc' = AfterEnroll(r.ok, enrollLeft').pc
         /\ result' = AfterEnroll(r.ok, enrollLeft').result
    /\ UNCHANGED <<runs, cancelled, cancelAt, luksVolumes, probeLeft,
                   atLeastOneVolumeNeedsFixing, pcr7, ukiCert, pcr7String, keyFile, atStart>>

\* A plausible slip: the reboot is requested only while the context is live.
Reboot_OnlyIfNotCancelled ==
    /\ pc = "Reboot"
    /\ IF cancelled
       THEN /\ pc' = "done"
            /\ result' = "err:context"
            /\ log' = log
       ELSE \E toolOk \in BOOLEAN :
              /\ log' = Append(log, Call("reboot", 0, "", toolOk, FALSE))
              /\ pc' = AfterReboot(toolOk).pc
              /\ result' = AfterReboot(toolOk).result
    /\ UNCHANGED <<runs, cancelled, cancelAt, locals, world, atStart>>

\* Lines 91-97.
Reboot ==
    /\ pc = "Reboot"
    /\ \E toolOk \in BOOLEAN :
         LET r == RunCommand(cancelled, toolOk) IN
         /\ log' = Append(log, Call("reboot", 0, "", r.ok, r.ctxErr))
         /\ pc' = AfterReboot(r.ok).pc
         /\ result' = AfterReboot(r.ok).result
    /\ UNCHANGED <<runs, cancelled, cancelAt, locals, world, atStart>>

Next ==
    /\ \/ Invoke
       \/ Cancel
       \/ CheckSecureBoot
       \/ Enumerate
       \/ ProbeVolume
       \/ CheckNeedsFixing
       \/ ReadPCR7
       \/ GetCert
       \/ WriteKey
       \/ EnrollVolume
       \/ Reboot
    /\ UNCHANGED <<xvars, pvars, mvars, fvars, gvars, kvars>>

Spec == Init /\ [][Next]_vars

\* ------------------------------------------------- extendPCRValue alone

\* Byte strings of at most n bytes over the bytes 0 and 1.
RECURSIVE BytesUpTo(_)
BytesUpTo(n) ==
    IF n = 0 THEN {<<>>}
    ELSE BytesUpTo(n - 1) \cup
         {Append(b, <<k>>) : b \in {c \in BytesUpTo(n - 1) : Len(c) = n - 1}, k \in {0, 1}}

\* Register values: after reset, after one extension, and an arbitrary one.
SamplePcrs == {Zero32, Sum256(Zero32 \o Bytes(<<1>>)), [i \in 1..DigestSize |-> <<i % 2>>]}

\* Contents: short raw byte strings, and a digest.
SampleContents == BytesUpTo(MaxContentLen) \cup {Sum256(Bytes(<<0>>))}

InitExtend ==
    /\ RecoveryIdle
    /\ ExtractIdle
    /\ GithubIdle
    /\ ProxyIdle
    /\ PredictIdle
    /\ MatcherIdle
    /\ xPcr \in SamplePcrs
    /\ xContent \in SampleContents
    /\ xFlag \in BOOLEAN
    /\ xCalls = 0
    /\ xOut = <<>>
    /\ xOut2 = <<>>

\* The caller extends the register with the content.
ExtendOnce ==
    /\ xCalls = 0
    /\ xOut' = extendPCRValue(xPcr, xContent, xFlag)
    /\ xCalls' = 1
    /\ UNCHANGED <<xPcr, xContent, xFlag, xOut2, rvars, pvars, mvars, fvars, gvars, kvars>>

\* The caller extends the register it got with the same content again.
ExtendAgain ==
    /\ xCalls = 1
    /\ xOut2' = extendPCRValue(xOut, xContent, xFlag)
    /\ xCalls' = 2
    /\ UNCHANGED <<xPcr, xContent, xFlag, xOut, rvars, pvars, mvars, fvars, gvars, kvars>>

NextExtend == ExtendOnce \/ ExtendAgain

SpecExtend == InitExtend /\ [][NextExtend]_vars

\* ------------------------------------------------- computeNewPCR7Value

DbGuid == "EFI_IMAGE_SECURITY_DATABASE_GUID"

\* The record of the db variable holding the given data.
DbRecord(data) ==
    Encode([VariableName |-> DbGuid, UnicodeNameLength |-> Len(DbName),
            VariableDataLength |-> ByteLen(data), UnicodeName |-> DbName,
            VariableData |-> data])

\* A record cut short inside its header.
TruncatedRecord == Bytes(<<1>>)

Event(index, type, data) ==
    [Index |-> index, Type |-> type, Data |-> data, Digest |-> Sum256(data)]

\* The events of the model: db as it was measured at boot, db measured with
\* other content, the authority that verified the boot stub, a separator, a
\* truncated record measured into PCR 4, and one measured into PCR 7.
EvDriverConfig == Event(7, "EFIVariableDriverConfig", DbRecord(DbValue(<<CertOld>>)))
EvDriverConfigOther == Event(7, "EFIVariableDriverConfig", DbRecord(Bytes(<<9>>)))
EvAuthority ==
    Event(7, "EFIVariableAuthority", DbRecord(<< <<"guid", "owner">> >> \o CertRaw(CertOld)))
EvSeparator == Event(7, "Separator", Bytes(<<0, 0, 0, 0>>))
EvOtherRegister == Event(4, "EFIVariableDriverConfig", TruncatedRecord)
EvTruncated == Event(7, "EFIVariableDriverConfig", TruncatedRecord)

Events ==
    {EvDriverConfig, EvDriverConfigOther, EvAuthority, EvSeparator, EvOtherRegister,
     EvTruncated}

EventLogs == UNION {[1..n -> Events] : n \in 0..MaxEvents}

\* The platforms of the model: the stub signed by the certificate of the log;
\* the stub signed by the new certificate, db updated; efivarfs unreadable;
\* the stub unreadable; the stub signed by a certificate db does not hold;
\* db emptied.
Platform(efiOk, dbCerts, peOk, stubCert) ==
    [efiOk |-> efiOk, dbCerts |-> dbCerts, archOk |-> TRUE, peOk |-> peOk,
     stubCert |-> stubCert]

Platforms ==
    {Platform(TRUE, <<CertOld>>, TRUE, CertOld),
     Platform(TRUE, <<CertOld, CertNew>>, TRUE, CertNew),
     Platform(FALSE, <<CertOld>>, TRUE, CertNew),
     Platform(TRUE, <<CertOld>>, FALSE, CertOld),
     Platform(TRUE, <<CertOld>>, TRUE, CertNew),
     Platform(TRUE, <<>>, TRUE, CertOld)}

InitPredict ==
    /\ RecoveryIdle
    /\ ExtractIdle
    /\ GithubIdle
    /\ ProxyIdle
    /\ ExtendIdle
    /\ MatcherIdle
    /\ pLog \in EventLogs
    /\ pEnv \in Platforms
    /\ pPc = "idle"
    /\ pI = 0
    /\ pAcc = <<>>
    /\ pPrevAcc = <<>>
    /\ pSteps = <<>>
    /\ pReads = <<>>
    /\ pResults = <<>>

\* A plausible slip: the buffer of the previous call is used again.
PredictCall_KeepsBuffer ==
    /\ pPc \in {"idle", "done"}
    /\ Len(pResults) < MaxCalls
    /\ pPc' = "loop"
    /\ pI' = 1
    /\ pAcc' = IF pAcc = <<>> THEN Zero32 ELSE pAcc
    /\ pPrevAcc' = <<>>
    /\ pSteps' = <<>>
    /\ pReads' = <<>>
    /\ UNCHANGED <<pLog, pEnv, pResults, rvars, xvars, mvars, fvars, gvars, kvars>>

\* Entry of computeNewPCR7Value (line 123).
PredictCall ==
    /\ pPc \in {"idle", "done"}
    /\ Len(pResults) < MaxCalls
    /\ pPc' = "loop"
    /\ pI' = 1
    /\ pAcc' = Zero32
    /\ pPrevAcc' = <<>>
    /\ pSteps' = <<>>
    /\ pReads' = <<>>
    /\ UNCHANGED <<pLog, pEnv, pResults, rvars, xvars, mvars, fvars, gvars, kvars>>

\* A plausible slip: the log walked from its end.
RangeIndex_Backwards(i, n) == n + 1 - i

\* for _, e := range eventLog (line 125): the event of iteration i of n.
RangeIndex(i, n) == i

\* Which branch of the loop body an event takes (lines 126-162).
Branch(e) ==
    IF ~IsPCR7(e) THEN "skip"
    ELSE IF e.Type = "EFIVariableDriverConfig" THEN "driverConfig"
    ELSE IF e.Type = "EFIVariableAuthority" THEN "authority"
    ELSE "default"

\* One iteration of the loop body, for an event that takes the given branch.
Iterate(branch) ==
    /\ pPc = "loop"
    /\ pI <= Len(pLog)
    /\ LET k == RangeIndex(pI, Len(pLog))
           r == EventStep(pAcc, pLog[k], pEnv)
       IN  /\ Branch(pLog[k]) = branch
           /\ pSteps' = Append(pSteps, k)
           /\ pReads' = pReads \o r.reads
           /\ pPrevAcc' = pAcc
           /\ IF r.err # ""
              THEN /\ pPc' = "done"
                   /\ pResults' = Append(pResults, [err |-> r.err, buf |-> <<>>])
                   /\ UNCHANGED <<pI, pAcc>>
              ELSE /\ pAcc' = r.buf
                   /\ pI' = pI + 1
                   /\ UNCHANGED <<pPc, pResults>>
    /\ UNCHANGED <<pLog, pEnv, rvars, xvars, mvars, fvars, gvars, kvars>>

SkipEvent ==
    /\ pPc = "loop"
    /\ Iterate("skip")

DriverConfigEvent ==
    /\ pPc = "loop"
    /\ Iterate("driverConfig")

AuthorityEvent ==
    /\ pPc = "loop"
    /\ Iterate("authority")

DefaultEvent ==
    /\ pPc = "loop"
    /\ Iterate("default")

\* return actualPCR7Buf, nil (line 166).
PredictReturn ==
    /\ pPc = "loop"
    /\ pI > Len(pLog)
    /\ pPc' = "done"
    /\ pResults' = Append(pResults, [err |-> "", buf |-> pAcc])
    /\ UNCHANGED <<pLog, pEnv, pI, pAcc, pPrevAcc, pSteps, pReads, rvars, xvars, mvars, fvars, gvars, kvars>>

NextPredict ==
    \/ PredictCall
    \/ SkipEvent
    \/ DriverConfigEvent
    \/ AuthorityEvent
    \/ DefaultEvent
    \/ PredictReturn

SpecPredict == InitPredict /\ [][NextPredict]_vars

\* ------------------------------------- computeExpectedVariableAuthority

SignatureOwner == << <<"guid", "owner">> >>

\* The records handed to the matcher: db records signed by one certificate,
\* one followed by a stray byte, one whose data is a bare certificate, one
\* with two certificates, the SbatLevel record of the shim, a truncated
\* record and one whose data is shorter than a signature owner.
SbatRecord ==
    Encode([VariableName |-> "SHIM_LOCK_GUID", UnicodeNameLength |-> 9,
            VariableDataLength |-> 2,
            UnicodeName |-> <<"S", "b", "a", "t", "L", "e", "v", "e", "l">>,
            VariableData |-> Bytes(<<1, 2>>)])

AuthorityRecords ==
    {DbRecord(SignatureOwner \o CertRaw(c)) : c \in {CertOld, CertThirdParty, CertLong}}
    \cup {DbRecord(SignatureOwner \o CertRaw(CertOld)) \o Bytes(<<7>>),
          DbRecord(CertRaw(CertOld)),
          DbRecord(SignatureOwner \o CertRaw(CertOld) \o CertRaw(CertNew)),
          SbatRecord,
          TruncatedRecord,
          DbRecord(Bytes(<<1>>))}

\* Contents of db: up to MaxDbCerts certificates of our family.
DbLists == UNION {[1..n -> {CertOld, CertNew, CertLong}] : n \in 0..MaxDbCerts}

StubCerts == {CertOld, CertNew, CertLong, CertThirdParty, CertShortSubject}

MatcherPlatforms ==
    [efiOk : BOOLEAN, dbCerts : DbLists, archOk : BOOLEAN, peOk : BOOLEAN,
     stubCert : StubCerts]

InitMatcher ==
    /\ RecoveryIdle
    /\ ExtractIdle
    /\ GithubIdle
    /\ ProxyIdle
    /\ ExtendIdle
    /\ PredictIdle
    /\ mRaw \in AuthorityRecords
    /\ mEnv \in MatcherPlatforms
    /\ mPc = "idle"
    /\ mOut = [err |-> "", buf |-> <<>>, reads |-> <<>>]

\* The call and its return.
MatcherCall ==
    /\ mPc = "idle"
    /\ mPc' = "done"
    /\ mOut' = computeExpectedVariableAuthority(mRaw, mEnv)
    /\ UNCHANGED <<mRaw, mEnv, rvars, xvars, pvars, fvars, gvars, kvars>>

NextMatcher == MatcherCall

SpecMatcher == InitMatcher /\ [][NextMatcher]_vars

\* ------------------------------------------------ extractCertificateFromPE

\* A PE file is a record [opens, is64, Size, VirtualAddress, certs]: whether
\* pe.Open accepts it, whether its optional header is the 64-bit one, what its
\* Security directory declares, and how many certificates its PKCS7 blob
\* holds.  Every file of the model has PEFileLen bytes and keeps its
\* WIN_CERTIFICATE at SignatureAt, the blob behind the header.
PEFileLen == 14
SignatureAt == 2
BlobAt == SignatureAt + WinCertHeaderLen
BlobLen == PEFileLen - BlobAt

\* What the call did: the error ("" for nil, "panic: ..." for a run-time
\* panic), the certificate, the lengths passed to make, the (offset, length)
\* of the reads of the raw file, and the (offset, length) of the bytes handed
\* to pkcs7.Parse.
Extracted(err, cert, made, read, parsed) ==
    [err |-> err, cert |-> cert, made |-> made, read |-> read, parsed |-> parsed]

\* rawFile.ReadAt(buf, offset): the number of bytes read.
ReadAt(len, offset) ==
    IF offset >= PEFileLen THEN 0
    ELSE IF offset + len > PEFileLen THEN PEFileLen - offset
    ELSE len

\* pkcs7.Parse(buf) for the bytes at (offset, len): the blob of the file and
\* nothing else parses.
PkcsParses(offset, len) == offset = BlobAt /\ len = BlobLen

\* A plausible slip: both conditions required.
InvalidDirectory_BothRequired(certSize, offset) == certSize <= -8 /\ offset <= 8

\* certSize <= -8 || offset <= 8 (line 294).
InvalidDirectory(certSize, offset) == certSize <= -8 \/ offset <= 8

\* extractCertificateFromPE (lines 275-324).  make([]byte, certSize) with a
\* negative certSize panics.  os.Open of the file pe.Open has just opened is
\* taken to succeed.
extractCertificateFromPE(file) ==
    LET certSize  == file.Size - WinCertHeaderLen
        offset    == file.VirtualAddress + WinCertHeaderLen
        readBytes == ReadAt(certSize, offset)
        made      == <<certSize>>
        read      == << <<offset, certSize>> >>
    IN  IF ~file.opens THEN Extracted("pe.Open", 0, <<>>, <<>>, <<>>)
        ELSE IF ~file.is64
             THEN Extracted("doesn't appear to be a 64bit signed PE", 0, <<>>, <<>>, <<>>)
        ELSE IF InvalidDirectory(certSize, offset)
             THEN Extracted("doesn't appear to be a valid signed PE", 0, <<>>, <<>>, <<>>)
        ELSE IF certSize < 0
             THEN Extracted("panic: makeslice: len out of range", 0, made, <<>>, <<>>)
        ELSE IF readBytes # certSize
             THEN Extracted("only read part of the expected bytes", 0, made, read, <<>>)
        ELSE IF ~PkcsParses(offset, certSize)
             THEN Extracted("pkcs7.Parse", 0, made, read, read)
        ELSE IF file.certs # 1
             THEN Extracted("expected exactly one certificate from PE", 0, made, read, read)
        ELSE Extracted("", CertOld, made, read, read)

PEFiles ==
    [opens : BOOLEAN, is64 : BOOLEAN, Size : 0..MaxDirSize,
     VirtualAddress : 0..MaxDirAddress, certs : 0..2]

InitExtract ==
    /\ RecoveryIdle
    /\ ExtendIdle
    /\ PredictIdle
    /\ MatcherIdle
    /\ GithubIdle
    /\ ProxyIdle
    /\ fFile \in PEFiles
    /\ fPc = "idle"
    /\ fOut = [err |-> "", cert |-> 0, made |-> <<>>, read |-> <<>>, parsed |-> <<>>]

\* The call and its return.
ExtractCall ==
    /\ fPc = "idle"
    /\ fPc' = "done"
    /\ fOut' = extractCertificateFromPE(fFile)
    /\ UNCHANGED <<fFile, rvars, xvars, pvars, mvars, gvars, kvars>>

NextExtract == ExtractCall

SpecExtract == InitExtract /\ [][NextExtract]_vars

\* ------------------------------------------------- the GitHub provider

\* An error value is <<kind, n>>: the error the n-th request of a call got.
\* ErrProviderUnavailable and ErrNoUpdateAvailable are the sentinels of the
\* providers package.
ErrProviderUnavailable == <<"ErrProviderUnavailable", 0>>

ErrNoUpdateAvailable == <<"ErrNoUpdateAvailable", 0>>

\* What a request to GitHub can get.
Outcomes == {"ok", "RateLimitError", "Error"}

\* checkLimit (lines 136-143).
checkLimit(err) == IF err[1] = "RateLimitError" THEN ErrProviderUnavailable ELSE err

\* errors.Is(err, target) on error values that wrap nothing.
ErrorsIs(err, target) == err = target

\* A plausible slip: the zero time is not told apart from an old check.
CacheFresh_ZeroNotTested(lastCheck, now) == lastCheck + Hour > now

\* !p.releaseLastCheck.IsZero() && p.releaseLastCheck.Add(time.Hour).After(time.Now())
\* (line 174).
CacheFresh(lastCheck, now) == lastCheck # 0 /\ lastCheck + Hour > now

\* A plausible slip: a rate-limit error is retried like any other.
AfterAttempt_LimitRetried(err, n) ==
    IF err[1] = "ok" THEN "release"
    ELSE IF n < MaxAttempts THEN "retry"
    ELSE "error"

\* What tryGetRelease does with the outcome of its n-th attempt (lines
\* 148-165): return the release, return the error, or sleep and go round.
AfterAttempt(err, n) ==
    IF err[1] = "ok" THEN "release"
    ELSE IF ~ErrorsIs(checkLimit(err), err) THEN "error"
    ELSE IF n < MaxAttempts THEN "retry"
    ELSE "error"

\* A plausible slip: the error of ListReleaseAssets is not checked.
AfterListAssets_ErrorIgnored(ok) == "rec191"

\* Lines 186-188.
AfterListAssets(ok) == IF ok THEN "rec191" ELSE "unlock"

\* A plausible slip: ClearCache resets nothing.
ClearedTime_Kept(lastCheck) == lastCheck

\* time.Time{} (line 37).
ClearedTime(lastCheck) == 0

\* Whether the scan of lines 69-80 or 101-112 finds a file: named tells
\* whether the release the list belongs to holds a file for the name asked;
\* the names of the files of a release hold the version of that release.
FoundUpdateFile(op, named, assets, version) ==
    /\ assets # 0
    /\ named
    /\ op = "GetOSUpdate" => assets = version

\* GetOSUpdate or GetApplication is called (lines 60, 92).
GCall(g) ==
    /\ gPc[g] = "idle"
    /\ \E op \in {"GetOSUpdate", "GetApplication"} : gOp' = [gOp EXCEPT ![g] = op]
    /\ gPc' = [gPc EXCEPT ![g] = "lock"]
    /\ gErr' = [gErr EXCEPT ![g] = NoError]
    /\ gObj' = [gObj EXCEPT ![g] = NoObject]
    /\ UNCHANGED <<releaseLastCheck, releaseVersion, releaseAssets, releaseMu, gNow, gLatest,
                   gTries, gLocal, gFresh>>

\* ClearCache, from call to return (lines 35-40): no lock is taken.
ClearCache(g) ==
    /\ gPc[g] = "idle"
    /\ releaseLastCheck' = ClearedTime(releaseLastCheck)
    /\ gFresh' = 0
    /\ gOp' = [gOp EXCEPT ![g] = "ClearCache"]
    /\ gErr' = [gErr EXCEPT ![g] = NoError]
    /\ gObj' = [gObj EXCEPT ![g] = NoObject]
    /\ UNCHANGED <<releaseVersion, releaseAssets, releaseMu, gNow, gLatest, gPc, gTries,
                   gLocal>>

\* p.releaseMu.Lock() (line 170).
Lock(g) ==
    /\ gPc[g] = "lock"
    /\ releaseMu = "free"
    /\ releaseMu' = g
    /\ gPc' = [gPc EXCEPT ![g] = "check"]
    /\ UNCHANGED <<releaseLastCheck, releaseVersion, releaseAssets, gNow, gLatest, gOp, gErr,
                   gObj, gTries, gLocal, gFresh>>

\* Lines 174-176.
CheckCache(g) ==
    /\ gPc[g] = "check"
    /\ gPc' = [gPc EXCEPT ![g] = IF CacheFresh(releaseLastCheck, gNow) THEN "unlock" ELSE "try"]
    /\ UNCHANGED <<releaseLastCheck, releaseVersion, releaseAssets, releaseMu, gNow, gLatest,
                   gOp, gErr, gObj, gTries, gLocal, gFresh>>

\* One round of the loop of tryGetRelease (lines 148-163) and, when it is the
\* last, the return of tryGetRelease and lines 179-182 of checkRelease.
Attempt(g) ==
    /\ gPc[g] = "try"
    /\ Len(gTries) < MaxAttempts
    /\ \E kind \in Outcomes :
         LET n   == Len(gTries) + 1
             err == <<kind, n>>
             to  == AfterAttempt(err, n)
         IN  /\ gTries' = Append(gTries, err)
             /\ CASE to = "retry" ->
                       UNCHANGED <<gPc, gLocal, gErr>>
                  [] to = "release" ->
                       /\ gLocal' = [gLocal EXCEPT !.release = gLatest]
                       /\ gPc' = [gPc EXCEPT ![g] = "list"]
                       /\ UNCHANGED gErr
                  [] to = "error" ->
                       /\ gLocal' = [gLocal EXCEPT !.err = err]
                       /\ gErr' = [gErr EXCEPT ![g] = checkLimit(err)]
                       /\ gPc' = [gPc EXCEPT ![g] = "unlock"]
    /\ UNCHANGED <<releaseLastCheck, releaseVersion, releaseAssets, releaseMu, gNow, gLatest,
                   gOp, gObj, gFresh>>

\* ListReleaseAssets of the release just fetched (lines 185-188).
ListAssets(g) ==
    /\ gPc[g] = "list"
    /\ \E kind \in Outcomes :
         LET ok == kind = "ok"
         IN  /\ gLocal' = [gLocal EXCEPT !.assets = IF ok THEN gLocal.release ELSE 0]
             /\ gPc' = [gPc EXCEPT ![g] = AfterListAssets(ok)]
             /\ gErr' = [gErr EXCEPT ![g] =
                            IF AfterListAssets(ok) = "unlock"
                            THEN checkLimit(<<kind, 0>>) ELSE NoError]
    /\ UNCHANGED <<releaseLastCheck, releaseVersion, releaseAssets, releaseMu, gNow, gLatest,
                   gOp, gObj, gTries, gFresh>>

\* p.releaseLastCheck = time.Now() (line 191).
RecordTime(g) ==
    /\ gPc[g] = "rec191"
    /\ releaseLastCheck' = gNow
    /\ gFresh' = gNow
    /\ gPc' = [gPc EXCEPT ![g] = "rec192"]
    /\ UNCHANGED <<releaseVersion, releaseAssets, releaseMu, gNow, gLatest, gOp, gErr, gObj,
                   gTries, gLocal>>

\* p.releaseVersion = release.GetName() (line 192).
RecordVersion(g) ==
    /\ gPc[g] = "rec192"
    /\ releaseVersion' = gLocal.release
    /\ gPc' = [gPc EXCEPT ![g] = "rec193"]
    /\ UNCHANGED <<releaseLastCheck, releaseAssets, releaseMu, gNow, gLatest, gOp, gErr, gObj,
                   gTries, gLocal, gFresh>>

\* p.releaseAssets = assets (line 193).
RecordAssets(g) ==
    /\ gPc[g] = "rec193"
    /\ releaseAssets' = gLocal.assets
    /\ gPc' = [gPc EXCEPT ![g] = "unlock"]
    /\ UNCHANGED <<releaseLastCheck, releaseVersion, releaseMu, gNow, gLatest, gOp, gErr, gObj,
                   gTries, gLocal, gFresh>>

\* The deferred p.releaseMu.Unlock() (line 171), the return of checkRelease
\* and the test of its error by the caller (lines 62-65, 94-97).
Unlock(g) ==
    /\ gPc[g] = "unlock"
    /\ releaseMu' = "free"
    /\ gTries' = <<>>
    /\ gLocal' = NoLocal
    /\ gPc' = [gPc EXCEPT ![g] = IF gErr[g] # NoError THEN "idle" ELSE "scan"]
    /\ UNCHANGED <<releaseLastCheck, releaseVersion, releaseAssets, gNow, gLatest, gOp, gErr,
                   gObj, gFresh>>

\* The search for an update file (lines 69-80, 101-112).
Scan(g) ==
    /\ gPc[g] = "scan"
    /\ \E named \in BOOLEAN :
         IF FoundUpdateFile(gOp[g], named, releaseAssets, releaseVersion)
         THEN /\ gPc' = [gPc EXCEPT ![g] = "read85"]
              /\ UNCHANGED gErr
         ELSE /\ gPc' = [gPc EXCEPT ![g] = "idle"]
              /\ gErr' = [gErr EXCEPT ![g] = ErrNoUpdateAvailable]
    /\ UNCHANGED <<releaseLastCheck, releaseVersion, releaseAssets, releaseMu, gNow, gLatest,
                   gOp, gObj, gTries, gLocal, gFresh>>

\* assets: p.releaseAssets (lines 85, 118).
ReadAssets(g) ==
    /\ gPc[g] = "read85"
    /\ gObj' = [gObj EXCEPT ![g].assets = releaseAssets]
    /\ gPc' = [gPc EXCEPT ![g] = "read86"]
    /\ UNCHANGED <<releaseLastCheck, releaseVersion, releaseAssets, releaseMu, gNow, gLatest,
                   gOp, gErr, gTries, gLocal, gFresh>>

\* version: p.releaseVersion (lines 86, 119), and the return of the object.
ReadVersion(g) ==
    /\ gPc[g] = "read86"
    /\ gObj' = [gObj EXCEPT ![g].version = releaseVersion]
    /\ gPc' = [gPc EXCEPT ![g] = "idle"]
    /\ UNCHANGED <<releaseLastCheck, releaseVersion, releaseAssets, releaseMu, gNow, gLatest,
                   gOp, gErr, gTries, gLocal, gFresh>>

\* Time passes.
Tick ==
    /\ gNow < MaxTime
    /\ gNow' = gNow + 1
    /\ UNCHANGED <<releaseLastCheck, releaseVersion, releaseAssets, releaseMu, gLatest, gPc,
                   gOp, gErr, gObj, gTries, gLocal, gFresh>>

\* A new release is published on GitHub.
Publish ==
    /\ gLatest < MaxReleases
    /\ gLatest' = gLatest + 1
    /\ UNCHANGED <<releaseLastCheck, releaseVersion, releaseAssets, releaseMu, gNow, gPc, gOp,
                   gErr, gObj, gTries, gLocal, gFresh>>

InitGithub ==
    /\ RecoveryIdle
    /\ ExtendIdle
    /\ PredictIdle
    /\ MatcherIdle
    /\ ExtractIdle
    /\ ProxyIdle
    /\ GithubIdle

NextGithub ==
    /\ \/ \E g \in Goroutines : GCall(g)
       \/ \E g \in Goroutines : ClearCache(g)
       \/ \E g \in Goroutines : Lock(g)
       \/ \E g \in Goroutines : CheckCache(g)
       \/ \E g \in Goroutines : Attempt(g)
       \/ \E g \in Goroutines : ListAssets(g)
       \/ \E g \in Goroutines : RecordTime(g)
       \/ \E g \in Goroutines : RecordVersion(g)
       \/ \E g \in Goroutines : RecordAssets(g)
       \/ \E g \in Goroutines : Unlock(g)
       \/ \E g \in Goroutines : Scan(g)
       \/ \E g \in Goroutines : ReadAssets(g)
       \/ \E g \in Goroutines : ReadVersion(g)
       \/ Tick
       \/ Publish
    /\ UNCHANGED <<rvars, xvars, pvars, mvars, fvars, kvars>>

SpecGithub == InitGithub /\ [][NextGithub]_vars

\* ------------------------------------------------- GenerateKPXConfig

\* Names are sequences of characters, ordered as Go orders strings.
Letters ==
    <<"a", "b", "c", "d", "e", "f", "g", "h", "i", "j", "k", "l", "m", "n", "o", "p", "q",
      "r", "s", "t", "u", "v", "w", "x", "y", "z">>

Code(ch) == CHOOSE i \in 1..Len(Letters) : Letters[i] = ch

RECURSIVE StringLess(_, _)
StringLess(a, b) ==
    IF a = <<>> THEN b # <<>>
    ELSE IF b = <<>> THEN FALSE
    ELSE IF Head(a) = Head(b) THEN StringLess(Tail(a), Tail(b))
    ELSE Code(Head(a)) < Code(Head(b))

RECURSIVE Sorted(_)
\* slices.Sorted(maps.Keys(m)) (line 94).
Sorted(keys) ==
    IF keys = {} THEN <<>>
    ELSE LET first == CHOOSE k \in keys : \A j \in keys \ {k} : StringLess(k, j)
         IN  <<first>> \o Sorted(keys \ {first})

Direct == <<"d", "i", "r", "e", "c", "t">>

None == <<"n", "o", "n", "e">>

Star == <<"*">>

\* The server keys of the model, "corp" and "edge" beside the reserved words:
\* corp < direct < edge < none.
ServerKeys == {<<"c", "o", "r", "p">>, <<"e", "d", "g", "e">>, Direct, None}

\* The servers of the model: anonymous with host and port, basic over
\* https, an authentication kpx does not know, and a host that is no URL.
ServerKinds ==
    {[Auth |-> "anonymous", Host |-> "proxy:3128"],
     [Auth |-> "basic", Host |-> "https://proxy"],
     [Auth |-> "digest", Host |-> "proxy:3128"],
     [Auth |-> "anonymous", Host |-> "http://[::1"]}

\* url.Parse of the host with its scheme added (lines 131-139), and what
\* lines 141-157 make of the port: [ok, Host, Port, https].
ParsedHost(host) ==
    CASE host = "proxy:3128" -> [ok |-> TRUE, Host |-> "proxy", Port |-> 3128, https |-> FALSE]
      [] host = "https://proxy" -> [ok |-> TRUE, Host |-> "proxy", Port |-> 443, https |-> TRUE]
      [] host = "http://[::1" -> [ok |-> FALSE, Host |-> "", Port |-> 0, https |-> FALSE]

\* A map with no key.
EmptyMap == [k \in {} |-> 0]

\* The configurations handed to GenerateKPXConfig: nil, or up to MaxServers
\* servers and up to MaxRules rules for a destination that is not "*".
ProxyConfigs ==
    {[IsNil |-> TRUE, Servers |-> <<>>, Rules |-> <<>>]}
    \cup
    {[IsNil |-> FALSE, Servers |-> servers, Rules |-> rules] :
        servers \in UNION {[keys -> ServerKinds] :
                              keys \in {k \in SUBSET ServerKeys : Cardinality(k) <= MaxServers}},
        rules \in UNION {[1..n -> [Destination : {<<"x">>}, Target : ServerKeys]] :
                            n \in 0..MaxRules}}

\* A plausible slip: the default rule takes the last server of the sorted list.
DefaultTarget_LastServer(definedServers) ==
    IF Len(definedServers) > 0 THEN definedServers[Len(definedServers)] ELSE Direct

\* Lines 95-107.
DefaultTarget(definedServers) ==
    IF Len(definedServers) > 0 THEN definedServers[1] ELSE Direct

\* The error of one round of the loop over the servers (lines 122-139), ""
\* for none.
ServerError(serverKey, server) ==
    IF serverKey = Direct \/ serverKey = None THEN "cannot use reserved keyword"
    ELSE IF server.Auth \notin {"anonymous", "basic", "kerberos"}
    THEN "unsupported proxy authentication type"
    ELSE IF ~ParsedHost(server.Host).ok THEN "url.Parse"
    ELSE ""

\* cfg.Proxies[serverKey] (lines 159-171).
Proxy(serverKey, server) ==
    [Host |-> ParsedHost(server.Host).Host,
     Port |-> ParsedHost(server.Host).Port,
     SSL |-> ParsedHost(server.Host).https,
     Type |-> server.Auth,
     Credential |-> IF server.Auth = "anonymous" THEN <<>> ELSE serverKey]

\* A plausible slip: the target of a rule is not looked up.
TargetMissing_NeverChecked(proxies, target) == FALSE

\* !targetExists && rule.Target != "direct" && rule.Target != "none" (line 184).
TargetMissing(proxies, target) ==
    target \notin DOMAIN proxies /\ target # Direct /\ target # None

\* yaml.Marshal(cfg) as the one document it writes: the fields of cfg under
\* their yaml names.  An empty proxies or credentials map is left out of the
\* text, which reads back as the empty map.
Marshal(cfg) ==
    << [bind |-> cfg.Bind, port |-> cfg.Port, check |-> cfg.Check,
        proxies |-> cfg.Proxies, credentials |-> cfg.Credentials, rules |-> cfg.Rules] >>

\* GenerateKPXConfig (lines 86-195), the servers ranged over in the given
\* order: [err, yaml].
GenerateKPXConfig(proxyConfig, order) ==
    LET servers == IF proxyConfig.IsNil THEN EmptyMap ELSE proxyConfig.Servers
        given   == IF proxyConfig.IsNil THEN <<>> ELSE proxyConfig.Rules
        rules   == IF Len(given) = 0
                   THEN << [Destination |-> Star,
                            Target |-> DefaultTarget(Sorted(DOMAIN servers))] >>
                   ELSE given
        failing == {i \in 1..Len(order) : ServerError(order[i], servers[order[i]]) # ""}
        proxies == [k \in DOMAIN servers |-> Proxy(k, servers[k])]
        creds   == [k \in {j \in DOMAIN servers : servers[j].Auth # "anonymous"} |->
                       [Login |-> "login", Password |-> "password"]]
        cfg     == [Bind |-> "localhost", Port |-> 3128, Check |-> FALSE,
                    Proxies |-> proxies, Credentials |-> creds,
                    Rules |-> [i \in 1..Len(rules) |->
                                  [Host |-> rules[i].Destination, Proxy |-> rules[i].Target]]]
    IN  IF failing # {}
        THEN LET i == CHOOSE j \in failing : \A l \in failing : j <= l
             IN  [err |-> ServerError(order[i], servers[order[i]]), yaml |-> <<>>]
        ELSE IF \E i \in 1..Len(rules) : TargetMissing(proxies, rules[i].Target)
        THEN [err |-> "no proxy defined for target", yaml |-> <<>>]
        ELSE [err |-> "", yaml |-> Marshal(cfg)]

\* The orders in which a range over a map of these keys can go.
Orders(keys) ==
    {o \in [1..Cardinality(keys) -> keys] : \A i, j \in DOMAIN o : i # j => o[i] # o[j]}

InitProxy ==
    /\ RecoveryIdle
    /\ ExtendIdle
    /\ PredictIdle
    /\ MatcherIdle
    /\ ExtractIdle
    /\ GithubIdle
    /\ kConfig \in ProxyConfigs
    /\ kPc = "idle"
    /\ kOut = [err |-> "", yaml |-> <<>>]

\* The call and its return.
GenerateCall ==
    /\ kPc = "idle"
    /\ kPc' = "done"
    /\ \E order \in Orders(IF kConfig.IsNil THEN {} ELSE DOMAIN kConfig.Servers) :
         kOut' = GenerateKPXConfig(kConfig, order)
    /\ UNCHANGED <<kConfig, rvars, xvars, pvars, mvars, fvars, gvars>>

NextProxy == GenerateCall

SpecProxy == InitProxy /\ [][NextProxy]_vars

\* ------------------------------------------------- reading the call log

Idx == 1..Len(log)

Ops(op) == {i \in Idx : log[i].op = op}

OkBefore(op, i) == \E j \in 1..(i - 1) : log[j].op = op /\ log[j].ok

\* Volumes whose re-enrollment succeeded in this run.
Rebound == {v \in Vols : \E i \in Ops("cryptenroll") : log[i].vol = v /\ log[i].ok}

\* The unlock test found a volume the TPM cannot unlock.
TestFailedBefore(i) == \E j \in 1..(i - 1) : log[j].op = "luksOpen" /\ ~log[j].ok

NoSideEffect == keyFile = keyFileAtStart /\ slot = slotAtStart

\* ------------------------------------------------------------------ claims

\* C1: no volume is re-enrolled and no reboot is requested unless, earlier in
\* the same run, the Secure Boot check, the enumeration and the unlock test,
\* the PCR7 read, the certificate extraction and the key write all succeeded;
\* a keyslot changes only through such a re-enrollment.
C1_DestructiveOnlyAfterAllSteps ==
    /\ \A i \in Idx :
         log[i].op \in {"cryptenroll", "reboot"} =>
           /\ OkBefore("Enabled", i)
           /\ OkBefore("GetLUKSVolumePartitions", i)
           /\ TestFailedBefore(i)
           /\ OkBefore("readPCR7", i)
           /\ OkBefore("getPublicKeyFromUKI", i)
           /\ OkBefore("WriteFile", i)
    /\ \A v \in Vols : slot[v] # slotAtStart[v] => v \in Rebound

C1_Witness ==
    /\ Ops("reboot") # {}
    /\ Rebound = Vols

\* Every enumerated volume passed the unlock test.
C2_AllUnlockable ==
    /\ Ops("GetLUKSVolumePartitions") # {}
    /\ \A i \in Ops("GetLUKSVolumePartitions") : log[i].ok
    /\ \A v \in luksVolumes : \E i \in Ops("luksOpen") : log[i].vol = v /\ log[i].ok

\* C2: when the unlock test succeeds for every enumerated volume (also when
\* none is enumerated), the run ends with NoRecoveryNeeded and has read no
\* PCR7, written no key file, re-enrolled nothing and requested no reboot.
C2_NoRecoveryNeededTouchesNothing ==
    C2_AllUnlockable =>
      /\ pc \in {"CheckNeedsFixing", "done"}
      /\ pc = "done" => result = "NoRecoveryNeeded"
      /\ Ops("readPCR7") = {}
      /\ Ops("WriteFile") = {}
      /\ Ops("cryptenroll") = {}
      /\ Ops("reboot") = {}
      /\ NoSideEffect

C2_Witness ==
    /\ C2_AllUnlockable
    /\ luksVolumes = Vols
    /\ pc = "done"
    /\ result = "NoRecoveryNeeded"

\* C3: when Secure Boot is not enabled, or its status query fails, the run
\* returns an error right after that query, which is its first call: nothing
\* is enumerated or probed, read, written, re-enrolled or rebooted.
C3_SecureBootGate ==
    /\ Len(log) >= 1 => log[1].op = "Enabled"
    /\ (Len(log) >= 1 /\ ~log[1].ok) =>
         /\ Len(log) = 1
         /\ pc = "done"
         /\ result = (IF log[1].val = "error" THEN "err:Enabled" ELSE "SecureBootDisabled")
         /\ NoSideEffect

C3_Witness ==
    /\ Len(log) = 1
    /\ log[1].val = "disabled"
    /\ result = "SecureBootDisabled"

\* C4: in every terminal state either every enumerated volume has been
\* re-enrolled or none has.
C4_AllOrNothing ==
    pc = "done" => (Rebound = {} \/ Rebound = luksVolumes)

\* C5: a failed re-enrollment is the last call of the run: the error is
\* returned, the volumes not yet visited keep their keyslot, and no reboot is
\* requested.
C5_EnrollFailureAborts ==
    \A i \in Ops("cryptenroll") :
      ~log[i].ok =>
        /\ i = Len(log)
        /\ pc = "done"
        /\ result = "err:cryptenroll"
        /\ \A v \in enrollLeft : slot[v] = slotAtStart[v]

C5_Witness ==
    /\ \E i \in Ops("cryptenroll") : ~log[i].ok /\ ~log[i].ctxErr
    /\ enrollLeft # {}
    /\ pc = "done"

\* The steps of the recovery operation, in order.
StepNames == <<"CheckPreconditions", "ReadLivePCR7", "ExtractRunningCertificate",
               "WriteRuntimeKey", "ReenrollVolumes", "Reboot">>

StepOf(op) ==
    CASE op \in {"Enabled", "GetLUKSVolumePartitions", "luksOpen"} -> 1
      [] op = "readPCR7" -> 2
      [] op = "getPublicKeyFromUKI" -> 3
      [] op = "WriteFile" -> 4
      [] op = "cryptenroll" -> 5
      [] op = "reboot" -> 6

\* The steps in the order they were entered.
StepTrace == [k \in 1..(IF log = <<>> THEN 0 ELSE StepOf(log[Len(log)].op)) |->
                StepNames[k]]

\* A call whose failure fails its step (a failing unlock test is a finding
\* of CheckPreconditions, not a failure of it).
FailsStep(i) == log[i].op # "luksOpen" /\ ~log[i].ok

\* C6: the steps of a run, read off its calls, are a prefix of
\* CheckPreconditions, ReadLivePCR7, ExtractRunningCertificate,
\* WriteRuntimeKey, ReenrollVolumes, Reboot, none skipped, reordered or
\* repeated, and a failing step is the last one.
C6_StepsArePrefix ==
    /\ Len(log) >= 1 => StepOf(log[1].op) = 1
    /\ \A i \in 1..(Len(log) - 1) :
         LET a == StepOf(log[i].op)
             b == StepOf(log[i + 1].op)
         IN  /\ b \in {a, a + 1}
             /\ b = a => a \in {1, 5}
    /\ \A i \in Idx : FailsStep(i) => (i = Len(log) /\ pc = "done" /\ result # "nil")
    /\ result = "NoRecoveryNeeded" => StepTrace = <<"CheckPreconditions">>
    /\ result = "nil" => StepTrace = StepNames

C6_Witness ==
    /\ result = "nil"
    /\ StepTrace = StepNames
    /\ Cardinality(Ops("luksOpen")) = MaxVolumes

\* C7: once the first volume's re-enrollment has been invoked, no later
\* re-enrollment is stopped by the cancellation of the context.
C7_CancelRefusedMidEnrollment ==
    \A i \in Ops("cryptenroll") :
      (\E j \in Ops("cryptenroll") : j < i) => ~log[i].ctxErr

\* The context was cancelled before the run wrote the key file or invoked a
\* re-enrollment.
C8_CancelledBeforeEffects ==
    /\ cancelAt >= 0
    /\ \A i \in Idx : log[i].op \in {"WriteFile", "cryptenroll"} => i > cancelAt

\* C8: a cancellation that takes effect before the first re-enrollment (and
\* before the run has had any effect) aborts the run with no side effect: no
\* file written, no keyslot changed, no reboot requested.
C8_EarlyCancelHasNoSideEffect ==
    C8_CancelledBeforeEffects =>
      /\ Ops("WriteFile") = {}
      /\ Ops("reboot") = {}
      /\ NoSideEffect
      /\ pc = "done" => result # "nil"

\* C9: a run reads PCR7 once, every re-enrollment of the run carries the
\* policy 7:sha256=<hex> whose hex digits decode to exactly the bytes that
\* read returned, no volume is re-enrolled twice, and on a run that re-enrolled
\* everything each enumerated volume was re-enrolled exactly once.
C9_OnePolicyOncePerVolume ==
    /\ Cardinality(Ops("readPCR7")) <= 1
    /\ \A i \in Ops("cryptenroll") :
         LET policy == log[i].val
             digits == SubSeq(policy, Len(PolicyPrefix) + 1, Len(policy))
         IN  /\ Len(policy) = Len(PolicyPrefix) + PCRHexLen
             /\ SubSeq(policy, 1, Len(PolicyPrefix)) = PolicyPrefix
             /\ log[i].ok => slot[log[i].vol] = policy
             /\ \E j \in Ops("readPCR7") :
                  /\ j < i
                  /\ log[j].ok
                  /\ Len(log[j].val) = PCRHexLen \div 2
                  /\ DecodeString(digits) = [ok |-> TRUE, bytes |-> log[j].val]
    /\ \A i, j \in Ops("cryptenroll") : log[i].vol = log[j].vol => i = j
    /\ \A i \in Ops("cryptenroll") : log[i].vol \in luksVolumes
    /\ (pc = "Reboot" \/ Ops("reboot") # {}) => Rebound = luksVolumes

C9_Witness ==
    /\ pc = "Reboot"
    /\ luksVolumes = Vols
    /\ \A v \in Vols : slot[v] = PolicyPrefix \o SubSeq(PcrFileLower, 1, PCRHexLen)

\* Every enumerated volume has been re-enrolled successfully in this run.
C10_AllEnrolled ==
    /\ Ops("cryptenroll") # {}
    /\ Rebound = luksVolumes

\* C10: the reboot is requested at most once, only after every enumerated
\* volume was re-enrolled successfully, and it is the very next call once the
\* last of them has been, whatever else holds (a cancelled context included).
C10_RebootAfterAllEnrolled ==
    /\ Cardinality(Ops("reboot")) <= 1
    /\ \A i \in Ops("reboot") :
         /\ C10_AllEnrolled
         /\ \A j \in Ops("cryptenroll") : j < i /\ log[j].ok
    /\ C10_AllEnrolled =>
         \/ pc = "Reboot" /\ Ops("reboot") = {}
         \/ pc = "done" /\ log[Len(log)].op = "reboot"
    /\ (\E j \in Ops("cryptenroll") : ~log[j].ok) => Ops("reboot") = {}

C10_Witness ==
    /\ C10_AllEnrolled
    /\ cancelled
    /\ pc = "done"
    /\ log[Len(log)].op = "reboot"
    /\ log[Len(log)].ctxErr

\* C11 (as claimed): once the reboot request has succeeded the operation
\* never returns a success value to its caller.
C11_NeverReturnsSuccess ==
    ~(pc = "done" /\ result = "nil")

\* C11 (amended): the operation returns the success value nil exactly when
\* the reboot request, its last call, has succeeded; a run that ended
\* otherwise returned an error.
C11_SuccessOnlyAfterReboot ==
    /\ result = "nil" =>
         /\ pc = "done"
         /\ log # <<>>
         /\ log[Len(log)].op = "reboot"
         /\ log[Len(log)].ok
    /\ (\E i \in Ops("reboot") : log[i].ok) => (pc = "done" /\ result = "nil")
    /\ (pc = "done" /\ Ops("reboot") = {}) => result \notin {"nil", "none"}

C11_Witness ==
    /\ pc = "done"
    /\ result = "nil"
    /\ \E i \in Ops("reboot") : log[i].ok

\* C12: extend(pcr, content, true) is SHA256(pcr || SHA256(content)),
\* extend(pcr, content, false) is SHA256(pcr || content), a digest of
\* DigestSize bytes, and the call leaves pcr and content as they were.
C12_ExtendIsShaOfConcat ==
    /\ [](xCalls >= 1 =>
            /\ xFlag => xOut = Sum256(xPcr \o Sum256(xContent))
            /\ ~xFlag => xOut = Sum256(xPcr \o xContent)
            /\ ByteLen(xOut) = DigestSize)
    /\ [][xPcr' = xPcr /\ xContent' = xContent /\ xFlag' = xFlag]_xvars

C12_Witness ==
    /\ xCalls >= 1
    /\ xFlag
    /\ xPcr = Zero32
    /\ xContent = Bytes(<<1, 0>>)
    /\ xOut = << <<"sha256", Zero32 \o << <<"sha256", <<<<1>>, <<0>>>>>> >>>> >>

\* C20: for content that is not empty, extending twice with the same content
\* never gives the register that extending once gives.
C20_NoIdempotence ==
    (xCalls = 2 /\ xContent # <<>>) => xOut2 # xOut

C20_Witness ==
    /\ xCalls = 2
    /\ xContent # <<>>
    /\ ~xFlag
    /\ xOut2 = Sum256(Sum256(xPcr \o xContent) \o xContent)

\* ------------------------------------------------- reading the results

\* What the last finished call returned.
Last == pResults[Len(pResults)]

Returns(buf) == [err |-> "", buf |-> buf]

\* The platform and log of the end-to-end scenario: db readable, the stub
\* signed by the certificate of the authority event, and a log of a db
\* event, that authority event and a separator.
C13_Scenario ==
    /\ pPc = "done"
    /\ pEnv.efiOk /\ pEnv.archOk /\ pEnv.peOk
    /\ pEnv.stubCert = CertOld
    /\ Len(pLog) = 3
    /\ pLog[1] \in {EvDriverConfig, EvDriverConfigOther}
    /\ pLog[2] = EvAuthority
    /\ pLog[3] = EvSeparator

\* C13 (as claimed): for the three-entry log the prediction is
\* SHA256(SHA256(SHA256(zero32 || SHA256(X)) || SHA256(encode(C1))) || D),
\* X the live value of db and encode(C1) the encoded certificate.
C13_HashOfBareValues ==
    C13_Scenario =>
        Last = Returns(Sum256(Sum256(Sum256(Zero32 \o Sum256(DbValue(pEnv.dbCerts)))
                                     \o Sum256(CertRaw(CertOld)))
                              \o pLog[3].Digest))

\* C13 (amended): for the three-entry log the prediction is
\* SHA256(SHA256(SHA256(zero32 || SHA256(R)) || SHA256(A)) || D), R the db
\* record of the log re-encoded with the live value X and its length, A the
\* unchanged data of the authority event, D the replayed digest.
C13_EndToEnd ==
    C13_Scenario =>
        Last = Returns(Sum256(Sum256(Sum256(Zero32 \o Sum256(DbRecord(DbValue(pEnv.dbCerts))))
                                     \o Sum256(pLog[2].Data))
                              \o pLog[3].Digest))

C13_Witness ==
    /\ C13_Scenario
    /\ pLog[1] = EvDriverConfigOther
    /\ Last.err = ""
    /\ pReads = <<"readEFIVariable", "getArchEFIFiles", "extractCertificateFromPE">>

\* Data a db event may have logged, and contents db may have now.
LoggedChoices == {DbValue(<<CertOld>>), Bytes(<<9>>), <<>>}

DbChoices == {<<CertOld>>, <<CertOld, CertNew>>, <<>>}

IsDriverConfig(e) == e.Index = 7 /\ e.Type = "EFIVariableDriverConfig"

\* C14: a db event extends the accumulator with the hash of its record
\* re-encoded with the live value; a log that differs only in the data
\* recorded in such an event gives the same prediction, and a platform that
\* differs only in the live value gives another one.
C14_LiveValueDecides ==
    /\ (pPc = "loop" /\ pSteps # <<>> /\ IsDriverConfig(pLog[pSteps[Len(pSteps)]])) =>
           pAcc = Sum256(pPrevAcc \o Sum256(DbRecord(DbValue(pEnv.dbCerts))))
    /\ pPc = "done" =>
           /\ \A i \in 1..Len(pLog) :
                  (IsDriverConfig(pLog[i]) /\ ParseUEFIVariableData(pLog[i].Data).ok) =>
                      \A d \in LoggedChoices :
                          computeNewPCR7Value(
                              [pLog EXCEPT ![i] = Event(7, "EFIVariableDriverConfig", DbRecord(d))],
                              pEnv) = Last
           /\ (Last.err = "" /\ \E i \in 1..Len(pLog) : IsDriverConfig(pLog[i])) =>
                  \A certs \in DbChoices \ {pEnv.dbCerts} :
                      computeNewPCR7Value(pLog, [pEnv EXCEPT !.dbCerts = certs]) # Last

C14_Witness ==
    /\ pPc = "done"
    /\ pLog = <<EvDriverConfigOther>>
    /\ pEnv.dbCerts = <<CertOld, CertNew>>
    /\ Last = Returns(Sum256(Zero32 \o Sum256(DbRecord(DbValue(<<CertOld, CertNew>>)))))

IsDefault(e) ==
    e.Index = 7 /\ e.Type \notin {"EFIVariableDriverConfig", "EFIVariableAuthority"}

\* C15: an event of PCR 7 of any other type sets the accumulator to
\* SHA256(accumulator || replayed digest); the step reads nothing and does
\* not end the call, whatever the raw data of the event.
C15_DefaultExtendsWithDigest ==
    [][(pPc = "loop" /\ pI <= Len(pLog) /\ IsDefault(pLog[pI])) =>
           /\ pAcc' = Sum256(pAcc \o pLog[pI].Digest)
           /\ pReads' = pReads
           /\ pPc' = "loop"
           /\ pI' = pI + 1
           /\ pResults' = pResults]_pvars

C15_Witness ==
    /\ pPc = "loop"
    /\ pSteps # <<>>
    /\ IsDefault(pLog[pSteps[Len(pSteps)]])
    /\ ~ParseUEFIVariableData(pLog[pSteps[Len(pSteps)]].Data).ok
    /\ pAcc = Sum256(pPrevAcc \o pLog[pSteps[Len(pSteps)]].Digest)
    /\ pReads = <<>>

OnPCR7(e) == e.Index = 7

\* C16: the call returns what it returns for the log without the events of
\* other registers, making the same reads, and returns 32 zero bytes for a
\* log without events of PCR 7.
C16_OtherRegistersIgnored ==
    pPc = "done" =>
        /\ Last = computeNewPCR7Value(SelectSeq(pLog, OnPCR7), pEnv)
        /\ (\A i \in 1..Len(pLog) : ~OnPCR7(pLog[i])) =>
               /\ Last = Returns([i \in 1..32 |-> <<0>>])
               /\ pReads = <<>>

C16_Witness ==
    /\ pPc = "done"
    /\ pLog = <<EvOtherRegister, EvSeparator, EvOtherRegister>>
    /\ Last = Returns(Sum256(Zero32 \o EvSeparator.Digest))

\* The error handling event e fails with on the platform, "" if it does not
\* fail: only events of PCR 7 that are recomputed can fail.
FailureOf(e) ==
    IF e.Index # 7 THEN ""
    ELSE IF e.Type = "EFIVariableDriverConfig"
    THEN computeExpectedVariableDriverConfig(e.Data, pEnv).err
    ELSE IF e.Type = "EFIVariableAuthority"
    THEN computeExpectedVariableAuthority(e.Data, pEnv).err
    ELSE ""

\* C17: when decoding or a read fails for an event of PCR 7, the call
\* returns that error and no digest, and handles no event after the first
\* failing one.
C17_FailClosed ==
    (pPc = "done" /\ \E i \in 1..Len(pLog) : FailureOf(pLog[i]) # "") =>
        LET f == CHOOSE i \in 1..Len(pLog) :
                     /\ FailureOf(pLog[i]) # ""
                     /\ \A j \in 1..(i - 1) : FailureOf(pLog[j]) = ""
        IN  /\ Last.err = FailureOf(pLog[f])
            /\ Last.buf = <<>>
            /\ pSteps = [j \in 1..f |-> j]

C17_Witness ==
    /\ pPc = "done"
    /\ pLog = <<EvSeparator, EvDriverConfig, EvSeparator>>
    /\ ~pEnv.efiOk
    /\ Last = [err |-> "readEFIVariable", buf |-> <<>>]
    /\ pSteps = <<1, 2>>
    /\ pPrevAcc # Zero32

\* C18: every call on the same log and platform returns the same result,
\* the one the log and the platform determine.
C18_Deterministic ==
    \A i \in 1..Len(pResults) :
        /\ pResults[i] = pResults[1]
        /\ pResults[i] = computeNewPCR7Value(pLog, pEnv)

C18_Witness ==
    /\ Len(pResults) = MaxCalls
    /\ pLog = <<EvDriverConfig, EvAuthority>>
    /\ pEnv.stubCert = CertNew
    /\ pEnv.dbCerts = <<CertOld, CertNew>>
    /\ pResults[1].err = ""
    /\ pResults[MaxCalls] = pResults[1]

\* The log with the events at i and j exchanged.
Exchanged(i, j) == [pLog EXCEPT ![i] = pLog[j], ![j] = pLog[i]]

\* What event e extends the accumulator with on the platform.
Extension(e) == EventStep(<<>>, e, pEnv).buf

\* C19: the result is the fold of the events in log order from 32 zero
\* bytes, and the log with two events of PCR 7 exchanged that extend with
\* different contents gives another digest.
C19_FoldInLogOrder ==
    pPc = "done" =>
        /\ Last = FoldEvents([i \in 1..32 |-> <<0>>], pLog, pEnv)
        /\ Last.err = "" =>
               \A i, j \in 1..Len(pLog) :
                   (i < j /\ OnPCR7(pLog[i]) /\ OnPCR7(pLog[j])
                      /\ Extension(pLog[i]) # Extension(pLog[j])) =>
                       computeNewPCR7Value(Exchanged(i, j), pEnv) # Last

C19_Witness ==
    /\ pPc = "done"
    /\ pLog = <<EvSeparator, EvDriverConfig>>
    /\ Last.err = ""
    /\ Last.buf = Sum256(Sum256(Zero32 \o EvSeparator.Digest)
                         \o Sum256(DbRecord(DbValue(pEnv.dbCerts))))
    /\ computeNewPCR7Value(<<EvDriverConfig, EvSeparator>>, pEnv) # Last

\* The record the last step measured, read out of the accumulator: the
\* accumulator is the hash of the previous one followed by the hash of the
\* record.
MeasuredRecord ==
    LET extended == pAcc[1][2]
    IN  extended[Len(extended)][2]

AfterDriverConfigStep ==
    /\ pPc = "loop"
    /\ pSteps # <<>>
    /\ IsDriverConfig(pLog[pSteps[Len(pSteps)]])

\* C32: the record measured for a db event declares as data length the
\* length of the live value and carries that value, whether the live value is
\* longer or shorter than the logged one; its name and GUID are those of the
\* logged record.
C32_DeclaredLengthIsLiveLength ==
    AfterDriverConfigStep =>
        LET logged == ParseUEFIVariableData(pLog[pSteps[Len(pSteps)]].Data).v
            live   == readEFIVariable(pEnv, DbName).buf
            made   == ParseUEFIVariableData(MeasuredRecord)
        IN  /\ MeasuredRecord[3] = <<"u64", ByteLen(live)>>
            /\ made.ok
            /\ made.v.VariableData = live
            /\ ByteLen(made.v.VariableData) = made.v.VariableDataLength
            /\ VarName(made.v) = VarName(logged)
            /\ made.v.UnicodeNameLength = logged.UnicodeNameLength
            /\ made.v.VariableName = logged.VariableName

C32_Witness ==
    /\ AfterDriverConfigStep
    /\ pLog[pSteps[Len(pSteps)]] = EvDriverConfig
    /\ pEnv.dbCerts = <<>>
    /\ ByteLen(ParseUEFIVariableData(EvDriverConfig.Data).v.VariableData) > 0
    /\ MeasuredRecord = DbRecord(<<>>)

\* ------------------------------------------------- reading the matcher

\* The record and the certificates the matcher decodes from its argument.
MDecoded == ParseUEFIVariableData(mRaw)

MLogCerts == ParseUEFIVariableAuthority(MDecoded.v)

\* The matcher has decoded one certificate and extracted the one of the stub.
MCompared ==
    /\ mPc = "done"
    /\ MDecoded.ok /\ MLogCerts.ok /\ Len(MLogCerts.certs) = 1
    /\ mEnv.archOk /\ mEnv.peOk

MSameCert == CertRaw(MLogCerts.certs[1]) = CertRaw(mEnv.stubCert)

\* The first four space-separated tokens of the Subject of the stub
\* certificate, for a Subject that has four.
MStubTokens == Split(CertSubject(mEnv.stubCert), " ")

MOurFamily ==
    /\ Len(MStubTokens) >= 4
    /\ HasPrefix(CertSubject(MLogCerts.certs[1]),
                 MStubTokens[1] \o <<" ">> \o MStubTokens[2] \o <<" ">> \o MStubTokens[3]
                 \o <<" ">> \o MStubTokens[4])

MReadsDb == \E i \in 1..Len(mOut.reads) : mOut.reads[i] = "GetCertificatesFromVar"

\* C21: when the one certificate of the record equals the certificate of the
\* boot stub, the matcher returns its argument, byte for byte, without an
\* error and without reading db.
C21_SameCertUntouched ==
    (MCompared /\ MSameCert) =>
        /\ mOut.err = ""
        /\ mOut.buf = mRaw
        /\ ~MReadsDb

C21_Witness ==
    /\ MCompared
    /\ MSameCert
    /\ mRaw # Encode(MDecoded.v)
    /\ mOut.buf = mRaw
    /\ mOut.reads = <<"getArchEFIFiles", "extractCertificateFromPE">>

\* C22: when the certificates differ and the Subject of the certificate of
\* the record does not start with the first four tokens of the Subject of the
\* stub certificate, the matcher returns its argument without an error and
\* without reading db, readable or not.
C22_ForeignCertUntouched ==
    (MCompared /\ ~MSameCert /\ Len(MStubTokens) >= 4 /\ ~MOurFamily) =>
        /\ mOut.err = ""
        /\ mOut.buf = mRaw
        /\ ~MReadsDb

C22_Witness ==
    /\ MCompared
    /\ MLogCerts.certs = <<CertThirdParty>>
    /\ mEnv.stubCert = CertNew
    /\ ~mEnv.efiOk
    /\ mOut = [err |-> "", buf |-> mRaw,
               reads |-> <<"getArchEFIFiles", "extractCertificateFromPE">>]

\* The matcher has found a certificate of our family that is not the one of
\* the stub, and has read db.
MRotated ==
    /\ MCompared
    /\ ~MSameCert
    /\ MOurFamily
    /\ mEnv.efiOk

MStubInDb == \E i \in 1..Len(mEnv.dbCerts) : CertRaw(mEnv.dbCerts[i]) = CertRaw(mEnv.stubCert)

\* C23: when the certificates differ, the prefixes match and no certificate
\* of db equals the one of the stub, the matcher returns the error that the
\* expected certificate is not in db, and no bytes.
C23_NotInDbIsAnError ==
    (MRotated /\ ~MStubInDb) =>
        /\ mOut.err = "failed to find matching certificate"
        /\ mOut.buf = <<>>

C23_Witness ==
    /\ MRotated
    /\ mEnv.stubCert = CertNew
    /\ mEnv.dbCerts = <<CertOld, CertLong>>
    /\ mOut.err = "failed to find matching certificate"
    /\ mOut.buf = <<>>

\* C24: with variable data of N bytes and a replacement certificate of M
\* bytes, the substitution fails with the size error when M # N - 16, and
\* otherwise returns a record whose data has N bytes, as its header declares.
C24_SubstitutionKeepsLength ==
    (MRotated /\ MStubInDb) =>
        LET N == ByteLen(MDecoded.v.VariableData)
            M == ByteLen(CertRaw(mEnv.stubCert))
            out == ParseUEFIVariableData(mOut.buf)
        IN  IF M # N - 16
            THEN /\ mOut.err = "resulting buffer size != expected size"
                 /\ mOut.buf = <<>>
            ELSE /\ mOut.err = ""
                 /\ out.ok
                 /\ ByteLen(out.v.VariableData) = N
                 /\ out.v.VariableDataLength = N

C24_Witness ==
    /\ MRotated
    /\ MStubInDb
    /\ mEnv.stubCert = CertLong
    /\ ByteLen(MDecoded.v.VariableData) = 34
    /\ mOut.err = "resulting buffer size != expected size"

\* C25: a record that decodes to no certificate or to several makes the
\* matcher fail with the count error before anything is read.
C25_CountIsChecked ==
    (mPc = "done" /\ MDecoded.ok /\ MLogCerts.ok /\ Len(MLogCerts.certs) # 1) =>
        /\ mOut.err = "expected exactly one certificate"
        /\ mOut.buf = <<>>
        /\ mOut.reads = <<>>

C25_Witness ==
    /\ mPc = "done"
    /\ MLogCerts.ok
    /\ Len(MLogCerts.certs) = 2
    /\ mEnv.stubCert = MLogCerts.certs[1]
    /\ mOut.err = "expected exactly one certificate"
    /\ mOut.reads = <<>>

\* C30: the record returned after a substitution has the variable name and
\* header of the decoded argument, the first 16 bytes of its data, and then
\* the raw bytes of the certificate of db that equals the one of the stub.
C30_OnlyCertificateReplaced ==
    (MRotated /\ MStubInDb /\ mOut.err = "") =>
        LET in  == MDecoded.v
            out == ParseUEFIVariableData(mOut.buf)
        IN  /\ out.ok
            /\ mOut.buf = Encode(out.v)
            /\ out.v.VariableName = in.VariableName
            /\ out.v.UnicodeNameLength = in.UnicodeNameLength
            /\ out.v.VariableDataLength = in.VariableDataLength
            /\ out.v.UnicodeName = in.UnicodeName
            /\ TakeBytes(out.v.VariableData, 16) = TakeBytes(in.VariableData, 16)
            /\ \E i \in 1..Len(mEnv.dbCerts) :
                   /\ CertRaw(mEnv.dbCerts[i]) = CertRaw(mEnv.stubCert)
                   /\ DropBytes(out.v.VariableData, 16) = CertRaw(mEnv.dbCerts[i])

C30_Witness ==
    /\ MRotated
    /\ mEnv.stubCert = CertNew
    /\ mEnv.dbCerts = <<CertOld, CertNew>>
    /\ mOut.err = ""
    /\ mOut.buf = DbRecord(SignatureOwner \o CertRaw(CertNew))
    /\ mOut.buf # mRaw

\* C31: whatever the Subject of the stub certificate, of fewer than four
\* space-separated tokens included, the matcher ends with a result or an
\* error value and never by slicing past the end of the token list.
C31_PrefixNeverPanics ==
    mPc = "done" => mOut.err # "panic: slice bounds out of range"

\* ------------------------------------------------- reading the extraction

\* C26: for a file that is not 64-bit, or whose Security directory declares
\* Size 0 or VirtualAddress 0, the extraction returns the error that the file
\* is not a signed PE, having made no buffer and read nothing of the file.
C26_UnsignedIsRefused ==
    (fPc = "done" /\ fFile.opens
       /\ (~fFile.is64 \/ fFile.Size = 0 \/ fFile.VirtualAddress = 0)) =>
        /\ fOut.err \in {"doesn't appear to be a 64bit signed PE",
                         "doesn't appear to be a valid signed PE"}
        /\ fOut.made = <<>>
        /\ fOut.read = <<>>
        /\ fOut.parsed = <<>>

C26_Witness ==
    /\ fPc = "done"
    /\ fFile.opens /\ fFile.is64
    /\ fFile.Size = 0
    /\ fFile.VirtualAddress = SignatureAt
    /\ fOut.err = "doesn't appear to be a valid signed PE"
    /\ fOut.read = <<>>

\* C27: whatever the Security directory declares, the extraction never asks
\* for a buffer of negative length, never hands bytes from beyond the end of
\* the file to the PKCS7 parser, and ends with an error value, not a panic,
\* when the declared range is not inside the file.
C27_RangeValidated ==
    fPc = "done" =>
        /\ \A i \in 1..Len(fOut.made) : fOut.made[i] >= 0
        /\ \A i \in 1..Len(fOut.parsed) :
               fOut.parsed[i][1] + fOut.parsed[i][2] <= PEFileLen
        /\ fOut.err \notin {"panic: makeslice: len out of range"}
        /\ (fFile.opens /\ fFile.is64
              /\ (fFile.Size < WinCertHeaderLen
                    \/ fFile.VirtualAddress + fFile.Size > PEFileLen)) =>
               fOut.err # ""

\* ------------------------------------------------- reading the provider

\* C34: a checkRelease that finds a check recorded less than an hour ago,
\* with no ClearCache since, returns nil having made no request; one that
\* finds that ClearCache was called since the last recorded check, or that
\* nothing was ever recorded, goes on to fetch.
C34_OneCheckPerHour ==
    [][\A g \in Goroutines :
           (gPc[g] = "check" /\ gPc'[g] # "check") =>
               /\ (gFresh # 0 /\ gNow < gFresh + Hour) =>
                      /\ gPc'[g] = "unlock"
                      /\ gErr'[g] = NoError
                      /\ gTries' = <<>>
                      /\ gLocal' = NoLocal
               /\ gFresh = 0 => gPc'[g] = "try"]_vars

C34_Witness ==
    \E g \in Goroutines :
        /\ gPc[g] = "unlock"
        /\ releaseMu = g
        /\ gErr[g] = NoError
        /\ gTries = <<>>
        /\ gLocal = NoLocal
        /\ gFresh # 0
        /\ gNow > gFresh
        /\ releaseVersion # 0

\* The goroutine has come back from tryGetRelease.
TryReturned(g) ==
    /\ gTries # <<>>
    /\ gPc[g] \in {"list", "rec191", "rec192", "rec193", "unlock"}

\* C35: tryGetRelease makes at most five attempts; every attempt but the
\* last one made failed with an error that is no rate-limit error, so a
\* success or a rate-limit error ends the loop at once; it returns the release
\* of a successful attempt, the rate-limit error, or after five failures the
\* error of the fifth.
C35_AtMostFiveAttempts ==
    /\ Len(gTries) <= MaxAttempts
    /\ \A i \in 1..(Len(gTries) - 1) : gTries[i] = <<"Error", i>>
    /\ \A g \in Goroutines :
           /\ gPc[g] = "try" =>
                  /\ Len(gTries) < MaxAttempts
                  /\ \A i \in 1..Len(gTries) : gTries[i] = <<"Error", i>>
           /\ TryReturned(g) =>
                  LET last == gTries[Len(gTries)]
                  IN  CASE last[1] = "ok" ->
                             gLocal.release # 0 /\ gLocal.err = NoError
                        [] last[1] = "RateLimitError" ->
                             gLocal.release = 0 /\ gLocal.err = last
                        [] last[1] = "Error" ->
                             /\ Len(gTries) = MaxAttempts
                             /\ gLocal.release = 0
                             /\ gLocal.err = last

C35_Witness ==
    \E g \in Goroutines :
        /\ gPc[g] = "unlock"
        /\ Len(gTries) = MaxAttempts
        /\ gLocal.err = <<"Error", MaxAttempts>>
        /\ gErr[g] = <<"Error", MaxAttempts>>

\* C36: the cached time, version and assets change only by ClearCache
\* zeroing the time or by the goroutine that holds the mutex recording a
\* release it has fetched with its assets, so a call that fails changes
\* nothing; outside such a recording the cached version and assets belong to
\* the same release.
C36_FailedCheckChangesNothing ==
    [][/\ <<releaseLastCheck, releaseVersion, releaseAssets>>'
              # <<releaseLastCheck, releaseVersion, releaseAssets>> =>
              \/ /\ releaseLastCheck' = 0
                 /\ <<releaseVersion, releaseAssets>>' = <<releaseVersion, releaseAssets>>
              \/ \E g \in Goroutines :
                     /\ releaseMu = g
                     /\ gPc[g] \in {"rec191", "rec192", "rec193"}
                     /\ gLocal.err = NoError
                     /\ gLocal.release # 0
                     /\ gLocal.assets = gLocal.release
                     /\ gErr[g] = NoError
                     /\ gErr'[g] = NoError
                     /\ releaseVersion' \in {releaseVersion, gLocal.release}
                     /\ releaseAssets' \in {releaseAssets, gLocal.assets}
       /\ (\A g \in Goroutines : gPc'[g] \notin {"rec192", "rec193"}) =>
              releaseVersion' = releaseAssets'
       /\ \A g \in Goroutines :
              (gPc[g] = "unlock" /\ gErr[g] # NoError) =>
                  UNCHANGED <<releaseVersion, releaseAssets>>]_vars

C36_Witness ==
    \E g \in Goroutines :
        /\ gPc[g] = "unlock"
        /\ gErr[g] = <<"Error", 0>>
        /\ gLocal.release = 2
        /\ releaseVersion = 1
        /\ releaseAssets = 1
        /\ releaseLastCheck # 0

\* C37: an object a call returns carries the assets and the version of one
\* release, and the cached fields are read only by the goroutine that holds
\* the mutex.
C37_NoMixedRelease ==
    \A g \in Goroutines :
        /\ (gPc[g] = "idle" /\ gObj[g] # NoObject) => gObj[g].assets = gObj[g].version
        /\ gPc[g] \in {"scan", "read85", "read86"} => releaseMu = g

\* ------------------------------------------------- reading the configuration

KDocument == kOut.yaml[1]

KServers == IF kConfig.IsNil THEN {} ELSE DOMAIN kConfig.Servers

KGivenRules == IF kConfig.IsNil THEN <<>> ELSE kConfig.Rules

\* C38: a configuration returned without error has at least one rule and
\* every rule names a proxy of the configuration, direct or none; a server
\* keyed direct or none, or a rule for a target that is neither a server nor
\* reserved, gives an error and no document; with no rules given the one
\* rule is for "*" and targets the first server key in sorted order, or
\* direct when there is no server.
C38_RulesTargetDefinedProxies ==
    kPc = "done" =>
        /\ (kOut.err = "") = (Len(kOut.yaml) = 1)
        /\ kOut.err = "" =>
               /\ Len(KDocument.rules) >= 1
               /\ \A i \in 1..Len(KDocument.rules) :
                      KDocument.rules[i].Proxy \in DOMAIN KDocument.proxies \cup {Direct, None}
               /\ DOMAIN KDocument.proxies = KServers
               /\ Len(KGivenRules) = 0 =>
                      /\ Len(KDocument.rules) = 1
                      /\ KDocument.rules[1].Host = Star
                      /\ IF KServers = {}
                         THEN KDocument.rules[1].Proxy = Direct
                         ELSE /\ KDocument.rules[1].Proxy \in KServers
                              /\ \A k \in KServers \ {KDocument.rules[1].Proxy} :
                                     StringLess(KDocument.rules[1].Proxy, k)
        /\ (Direct \in KServers \/ None \in KServers) => kOut.err # ""
        /\ (\E i \in 1..Len(KGivenRules) :
               KGivenRules[i].Target \notin KServers \cup {Direct, None}) => kOut.err # ""

C38_Witness ==
    /\ kPc = "done"
    /\ kOut.err = ""
    /\ Cardinality(KServers) = 2
    /\ Len(KGivenRules) = 0
    /\ KDocument.rules = << [Host |-> Star, Proxy |-> <<"c", "o", "r", "p">>] >>

\* ------------------------------------------------- across invocations

\* What the log of the current invocation (emptied on entry) says about its
\* preconditions: the status of Secure Boot and the unlock tests.
Observed ==
    IF Ops("Enabled") = {} THEN "undecided"
    ELSE IF \E i \in Ops("Enabled") : log[i].val = "error" THEN "err:Enabled"
    ELSE IF \E i \in Ops("Enabled") : ~log[i].ok THEN "SecureBootDisabled"
    ELSE IF Ops("GetLUKSVolumePartitions") = {} THEN "undecided"
    ELSE IF \E i \in Ops("GetLUKSVolumePartitions") : ~log[i].ok
         THEN "err:GetLUKSVolumePartitions"
    ELSE IF \E i \in Ops("luksOpen") : ~log[i].ok THEN "accept"
    ELSE IF \A i \in Ops("GetLUKSVolumePartitions") :
                \A v \in log[i].val : \E j \in Ops("luksOpen") : log[j].vol = v
         THEN "NoRecoveryNeeded"
    ELSE "undecided"

\* What the current invocation has decided: a refusal, or to go on.
Decided ==
    IF result \in {"err:Enabled", "SecureBootDisabled", "err:GetLUKSVolumePartitions",
                   "NoRecoveryNeeded"}
    THEN result
    ELSE IF pc \in {"ReadPCR7", "GetCert", "WriteKey", "EnrollLoop", "Reboot"}
            \/ Ops("readPCR7") # {}
    THEN "accept"
    ELSE "undecided"

\* C28: in every invocation the decision to refuse or to go on is the one the
\* Secure Boot status and the unlock tests seen by that invocation call for,
\* whatever earlier invocations saw and did.
C28_PreconditionsRecomputed ==
    Decided # "undecided" => Decided = Observed

C28_Witness ==
    /\ runs = 2
    /\ keyFileAtStart # "absent"
    /\ Ops("luksOpen") # {}
    /\ Decided = "NoRecoveryNeeded"

\* ------------------------------------------------- the core as a whole

\* The events whose handling reads the platform, and a separator.
CoreEvents == {EvDriverConfig, EvAuthority, EvSeparator}

CoreLogs == UNION {[1..n -> CoreEvents] : n \in 1..MaxEvents}

\* The core serves either invocations of the recovery operation or
\* predictions over a log that is not empty.
InitCore ==
    \/ Init
    \/ /\ RecoveryIdle
       /\ ExtendIdle
       /\ MatcherIdle
       /\ ExtractIdle
       /\ GithubIdle
       /\ ProxyIdle
       /\ pLog \in CoreLogs
       /\ pEnv \in Platforms
       /\ pPc = "idle"
       /\ pI = 0
       /\ pAcc = <<>>
       /\ pPrevAcc = <<>>
       /\ pSteps = <<>>
       /\ pReads = <<>>
       /\ pResults = <<>>

NextCore ==
    \/ pLog = <<>> /\ Next
    \/ pLog # <<>> /\ NextPredict

SpecCore == InitCore /\ [][NextCore]_vars

\* The external actions of the recovery operation that can fail, with the
\* error the operation returns for each.
ErrorOfFailed(op) ==
    CASE op = "Enabled" -> "err:Enabled"
      [] op = "GetLUKSVolumePartitions" -> "err:GetLUKSVolumePartitions"
      [] op = "readPCR7" -> "err:readPCR7"
      [] op = "getPublicKeyFromUKI" -> "err:getPublicKeyFromUKI"
      [] op = "WriteFile" -> "err:WriteFile"
      [] op = "cryptenroll" -> "err:cryptenroll"
      [] op = "reboot" -> "err:reboot"

HasFailed(i) ==
    /\ log[i].op \in {"Enabled", "GetLUKSVolumePartitions", "readPCR7", "getPublicKeyFromUKI",
                      "WriteFile", "cryptenroll", "reboot"}
    /\ ~log[i].ok
    /\ ~(log[i].op = "Enabled" /\ log[i].val = "disabled")

\* Whether a read of the prediction fails on the platform.
ReadFails(read) ==
    CASE read = "readEFIVariable" -> ~pEnv.efiOk
      [] read = "getArchEFIFiles" -> ~pEnv.archOk
      [] read = "extractCertificateFromPE" -> ~pEnv.peOk
      [] read = "GetCertificatesFromVar" -> ~pEnv.efiOk

\* C29: in an invocation of the recovery operation or of the prediction, an
\* external action that has failed is the last one the invocation makes, so
\* it is not made again, and the invocation returns the error of that
\* failure.
C29_NothingRetried ==
    /\ \A i \in Idx :
           HasFailed(i) =>
               /\ i = Len(log)
               /\ pc = "done"
               /\ result = ErrorOfFailed(log[i].op)
    /\ \A i \in 1..Len(pReads) :
           ReadFails(pReads[i]) =>
               /\ i = Len(pReads)
               /\ pPc = "done"
               /\ Last = [err |-> pReads[i], buf |-> <<>>]

C29_Witness ==
    /\ pc = "done"
    /\ result = "err:getPublicKeyFromUKI"
    /\ Cardinality(Ops("getPublicKeyFromUKI")) = 1
    /\ HasFailed(Len(log))
    /\ Ops("WriteFile") = {}

\* What readPCR7 can decode from a register file: the bytes of its first
\* PCRHexLen characters.
DecodedFrom(file) == DecodeString(SubSeq(file, 1, PCRHexLen)).bytes

\* C33: a PCR7 value produced is DigestSize bytes long: a read of the
\* register that succeeds returns the DigestSize bytes decoded from the
\* PCRHexLen hex characters of a file that holds as many, a read that gets
\* fewer bytes is an error, and a prediction that succeeds returns a digest.
C33_ValuesAre32Bytes ==
    /\ \A i \in Ops("readPCR7") :
           IF log[i].ok
           THEN /\ Len(log[i].val) = DigestSize
                /\ \A k \in 1..DigestSize : log[i].val[k] \in 0..255
                /\ \E f \in 1..Len(PcrFiles) :
                       /\ Len(PcrFiles[f]) >= PCRHexLen
                       /\ log[i].val = DecodedFrom(PcrFiles[f])
           ELSE Len(log[i].val) < DigestSize
    /\ pc \in {"GetCert", "WriteKey", "EnrollLoop", "Reboot"} => Len(pcr7) = DigestSize
    /\ \A i \in 1..Len(pResults) :
           pResults[i].err = "" => ByteLen(pResults[i].buf) = DigestSize

C33_Witness ==
    /\ pc = "GetCert"
    /\ Len(pcr7) = DigestSize
    /\ pcr7 = DecodedFrom(PcrFileUpper)
    /\ \E i \in Ops("readPCR7") : log[i].ok /\ log[i].val = pcr7

====
